---- MODULE Spec2Model ----
(***************************************************************************)
(* CIR: a model of the indentation parser (src/src/tree-parse.js) and of   *)
(* the C skeleton generator (the newest CSkeletonizer,                     *)
(* src/unnamed/part_002, whose SetMode / Define / DefaultDefine branches   *)
(* are the ones of src/src/skeletonize.js).                                *)
(*                                                                         *)
(* A JavaScript object is a record or a function, an array is a sequence,  *)
(* a thrown error is the field err of the object that threw (the empty     *)
(* string: no error), and the recursion of skeletonizeNode is an explicit  *)
(* stack of frames.                                                        *)
(***************************************************************************)
EXTENDS Integers, Sequences, FiniteSets, TLC

VARIABLES
    treeNodes,   \* CSkeletonizer.treeNodes: the tree handed to the constructor
    skel,        \* the CSkeletonizer instance (its fields)
    gstack,      \* the pending calls of skeletonizeNode, innermost first
    gpc,         \* "run" | "done" | "error": where skeletonize() is
    output,      \* what skeletonize(treeNodes) returned (gpc = "done")
    generated,   \* history: the frames generated so far, in order
    run,         \* which generator instance is running (1 or 2)
    firstResult, \* history: outcome of the first instance, once a second runs
    parser,      \* the TreeParser instance (its fields)
    pstack,      \* the pending calls of parse and parseStep, innermost first
    ret,         \* what the parseStep that returned last returned
    ppc,         \* "run" | "done" | "error": where makeTree is ("idle": not called)
    lex,         \* the locals of tokenize: string, i, tokens (err: what it threw)
    tpc          \* "run" | "done" | "error": where tokenize is ("idle": not called)

gvars == <<treeNodes, skel, gstack, gpc, output, generated, run, firstResult>>

pvars == <<parser, pstack, ret, ppc>>

tvars == <<lex, tpc>>

vars == <<gvars, pvars, tvars>>

-----------------------------------------------------------------------------
(* Values *)

Null == ""

Token(type, raw) == [type |-> type, raw |-> raw]

TreeNode(type, value, children) ==
    [type |-> type, value |-> value, children |-> children]

Has(obj, key) == key \in DOMAIN obj

Put(obj, key, val) ==
    [k \in (DOMAIN obj) \cup {key} |-> IF k = key THEN val ELSE obj[k]]

RECURSIVE Join(_, _)
Join(strings, sep) ==
    IF strings = <<>> THEN ""
    ELSE IF Len(strings) = 1 THEN strings[1]
    ELSE strings[1] \o sep \o Join(Tail(strings), sep)

RECURSIVE Repeated(_, _)
Repeated(str, n) == IF n <= 0 THEN "" ELSE str \o Repeated(str, n - 1)

Map(seq, Op(_)) == [i \in 1..Len(seq) |-> Op(seq[i])]

Raw(token) == token.raw

\* assert(expression, message) on a false expression: the error thrown
Throw(this, message) == [this EXCEPT !.err = message]

Undefined == "undefined"

-----------------------------------------------------------------------------
(* tokenize (src/src/tokenize.js); a string is the sequence of its characters *)

KEYWORD_LIST ==
    { "STRUCTURE", "METHOD", "REPEAT", "TIMES", "SETMODE", "DEFAULT", "DEFINE",
      "CHOOSE", "FOR", "TO", "PASS", "RETURN", "IF", "WHILE", "ELSE", "ELSEIF",
      "ELSIF", "ELIF", "MUTABLE" }

UpperCase ==
    { "A", "B", "C", "D", "E", "F", "G", "H", "I", "J", "K", "L", "M",
      "N", "O", "P", "Q", "R", "S", "T", "U", "V", "W", "X", "Y", "Z" }

LowerCase ==
    { "a", "b", "c", "d", "e", "f", "g", "h", "i", "j", "k", "l", "m",
      "n", "o", "p", "q", "r", "s", "t", "u", "v", "w", "x", "y", "z" }

Digits == {"0", "1", "2", "3", "4", "5", "6", "7", "8", "9"}

\* [A-Za-z_] and [A-Za-z0-9_]
WordStart == UpperCase \cup LowerCase \cup {"_"}
WordChar == WordStart \cup Digits

RECURSIVE RunOf(_, _, _)
\* the length of the longest run of characters of set from position at on
RunOf(string, at, set) ==
    IF at <= Len(string) /\ string[at] \in set
    THEN 1 + RunOf(string, at + 1, set)
    ELSE 0

\* the text of the n characters from position at on
Slice(string, at, n) == Join(SubSeq(string, at, at + n - 1), "")

StartsWith(string, at, chars) ==
    /\ at + Len(chars) - 1 <= Len(string)
    /\ SubSeq(string, at, at + Len(chars) - 1) = chars

\* ^(?:STRUCTURE|...)\b : a keyword that the next character does not continue
KeywordRegex(string, at) ==
    IF Slice(string, at, RunOf(string, at, WordChar)) \in KEYWORD_LIST
    THEN RunOf(string, at, WordChar)
    ELSE 0

\* ^(?:\/\/)[\s\S]*?(?:\n|$) : from // up to and with the first line feed, or to the end
CommentRegex(string, at) ==
    LET feeds == {k \in (at + 2)..Len(string) : string[k] = "\n"}
    IN  IF ~StartsWith(string, at, <<"/", "/">>) THEN 0
        ELSE IF feeds = {} THEN Len(string) - at + 1
        ELSE (CHOOSE k \in feeds : \A m \in feeds : k <= m) - at + 1

\* ^(?:[-+*\/!~^|&]|or|and|is)
OperatorRegex(string, at) ==
    IF string[at] \in {"-", "+", "*", "/", "!", "~", "^", "|", "&"} THEN 1
    ELSE IF StartsWith(string, at, <<"o", "r">>) THEN 2
    ELSE IF StartsWith(string, at, <<"a", "n", "d">>) THEN 3
    ELSE IF StartsWith(string, at, <<"i", "s">>) THEN 2
    ELSE 0

Regex(size, type) == [size |-> size, type |-> type]

\* for each regex of TokenRegexes, in order, the length of its match at
\* position at of the string (0: no match) and its token type (the texts
\* modelled are ASCII: the one-character arrow of the fifth regex is not in them)
TokenRegexes(string, at) ==
    << Regex(KeywordRegex(string, at), "Keyword"),
       Regex(CommentRegex(string, at), "Comment"),
       Regex(RunOf(string, at, {" ", "\t"}), "Spaces"),
       Regex(IF string[at] = ":" THEN 1 ELSE 0, "Colon"),
       Regex(IF StartsWith(string, at, <<"-", ">">>) THEN 2 ELSE 0, "ReturnTypeIndicator"),
       Regex(IF string[at] \in WordStart THEN RunOf(string, at, WordChar) ELSE 0, "Word"),
       Regex(RunOf(string, at, Digits), "Number"),
       Regex(RunOf(string, at, {"\r", "\n"}), "LineBreak"),
       Regex(OperatorRegex(string, at), "Operator"),
       Regex(IF string[at] = "(" THEN 1 ELSE 0, "OpenParen"),
       Regex(IF string[at] = ")" THEN 1 ELSE 0, "CloseParen"),
       Regex(IF string[at] = "," THEN 1 ELSE 0, "Comma"),
       Regex(IF string[at] = "=" THEN 1 ELSE 0, "SetEquals") >>

\* mutant: the cursor also steps over the character after the match
Advance_OneMore(i, raw) == i + Len(raw) + 1

\* i += raw.length
Advance(i, raw) == i + Len(raw)

\* tokenize(string), about to enter its loop
NewTokenize(string) == [string |-> string, i |-> 0, tokens |-> <<>>, err |-> ""]

\* one pass of the while loop of tokenize
tokenizeStep(t) ==
    LET regexes == TokenRegexes(t.string, t.i + 1)
        matches == {k \in 1..Len(regexes) : regexes[k].size > 0}
        first   == regexes[CHOOSE k \in matches : \A m \in matches : k <= m]
        chars   == SubSeq(t.string, t.i + 1, t.i + first.size)
        raw     == Join(chars, "")
    IN  IF matches = {}
        THEN [t EXCEPT !.err = "Unknown character: '" \o t.string[t.i + 1] \o "'"]
        ELSE IF /\ first.type = "Spaces"
                /\ \E k \in 1..Len(chars) : chars[k] = " "
                /\ \E k \in 1..Len(chars) : chars[k] = "\t"
        THEN [t EXCEPT !.i = Advance(@, raw), !.err = "Cannot mix tabs and spaces"]
        ELSE [t EXCEPT !.i = Advance(@, raw),
                       !.tokens = Append(@, Token(first.type, raw))]

\* tokenize is not called
TokenizerIdle ==
    /\ lex = NewTokenize(<<>>)
    /\ tpc = "idle"

\* one pass of the while loop of tokenize
TokenizeStep ==
    /\ tpc = "run"
    /\ lex.i < Len(lex.string)
    /\ lex' = tokenizeStep(lex)
    /\ tpc' = IF lex'.err # "" THEN "error" ELSE tpc
    /\ UNCHANGED <<gvars, pvars>>

\* the loop of tokenize ends: return tokens
TokenizeReturn ==
    /\ tpc = "run"
    /\ lex.i >= Len(lex.string)
    /\ tpc' = "done"
    /\ UNCHANGED <<lex, gvars, pvars>>

NextTokenize == TokenizeStep \/ TokenizeReturn

-----------------------------------------------------------------------------
(* TreeParser (src/src/tree-parse.js, the class of lines 35-490) *)

\* what reading a property of undefined throws
TypeError == "TypeError: Cannot read properties of undefined"

\* matched is null before the first match
NoMatch == [size |-> Null]

NewTreeParser(tokens) ==
    [ tokenIndex    |-> 0,
      tokens        |-> tokens,
      indent        |-> [level |-> 0, delta |-> 0],
      typeContext   |-> [Int |-> "Type", Byte |-> "Type", Array |-> "Type"],
      variableTypes |-> <<>>,
      matched       |-> NoMatch,
      nodes         |-> <<>>,
      err           |-> "",
      measured      |-> <<>> ]  \* history: the leading-whitespace runs measured

\* tokens[tokenIndex + i] is an element of the array
Defined(p, i) == p.tokenIndex + i >= 0 /\ p.tokenIndex + i < Len(p.tokens)

getTokenOffset(p, i) == p.tokens[p.tokenIndex + i + 1]

addNode(p, node) == [p EXCEPT !.nodes = Append(@, node)]

hasTokensLeft(p) == p.tokenIndex < Len(p.tokens)

hasAhead(p, option) == hasTokensLeft(p) /\ getTokenOffset(p, 0).type = option

\* the parser after a hasAhead(option) that returned true, moved on by n tokens
Took(p, n) == [p EXCEPT !.matched = [size |-> 1], !.tokenIndex = @ + n]

RECURSIVE SkipSpaces(_, _)
\* while(getTokenOffset(j).type === Spaces) j++: the offset the loop stops at,
\* which is not Defined when the loop read past the last token
SkipSpaces(p, j) ==
    IF Defined(p, j) /\ getTokenOffset(p, j).type = "Spaces"
    THEN SkipSpaces(p, j + 1)
    ELSE j

Ahead(found, size, err) == [found |-> found, size |-> size, err |-> err]

RECURSIVE MatchFrom(_, _, _, _)
\* the for loop of hasSequenceAhead from (i, j), and the loop after it
MatchFrom(p, toMatch, i, j) ==
    LET k == SkipSpaces(p, j)
    IN  IF ~Defined(p, k) THEN Ahead(FALSE, 0, TypeError)
        ELSE IF i > Len(toMatch) \/ ~(p.tokenIndex + j < Len(p.tokens))
        THEN Ahead(TRUE, k, "")
        ELSE IF getTokenOffset(p, k).type # toMatch[i] THEN Ahead(FALSE, 0, "")
        ELSE MatchFrom(p, toMatch, i + 1, k + 1)

hasSequenceAhead(p, toMatch) ==
    IF Len(toMatch) + p.tokenIndex >= Len(p.tokens)
    THEN Ahead(FALSE, 0, "")
    ELSE MatchFrom(p, toMatch, 1, 0)

\* the parser after a hasSequenceAhead that returned true and skipMatched()
skipMatched(p, ahead) ==
    [p EXCEPT !.matched = [size |-> ahead.size], !.tokenIndex = @ + ahead.size]

\* findTokenFromOffset(offset, type).raw
findTokenFromOffset(p, offset, type) ==
    LET found == {i \in (p.tokenIndex + offset + 1)..Len(p.tokens) :
                    i >= 1 /\ p.tokens[i].type = type}
    IN  IF found = {} THEN TypeError
        ELSE p.tokens[CHOOSE i \in found : \A j \in found : i <= j].raw

dump(token) ==
    "Token(type: Symbol(TokenTypes." \o token.type \o "), raw: \"" \o token.raw \o "\")"

ImproperIndentation(delta) ==
    "Improper indentation: Expected a multiple of " \o ToString(delta) \o " space(s)."

Measure(count, delta, level, accepted) ==
    [count |-> count, delta |-> delta, level |-> level, accepted |-> accepted]

\* previous is p.indent.level, next the level of the result, oldIndex p.tokenIndex
parseInitialWhitespace(p) ==
    IF hasAhead(p, "Spaces")
    THEN LET spaceCount == Len(getTokenOffset(p, 0).raw)
         IN  IF p.indent.level = 0
             THEN [Took(p, 1) EXCEPT
                     !.indent = [level |-> 1, delta |-> spaceCount],
                     !.measured = Append(@, Measure(spaceCount, spaceCount, 1, TRUE))]
             ELSE IF p.indent.delta = 0 \/ spaceCount % p.indent.delta # 0
             THEN [Throw(Took(p, 0), ImproperIndentation(p.indent.delta)) EXCEPT
                     !.measured = Append(@, Measure(spaceCount, p.indent.delta, 0, FALSE))]
             ELSE [Took(p, 1) EXCEPT
                     !.indent.level = spaceCount \div p.indent.delta,
                     !.measured = Append(@, Measure(spaceCount, p.indent.delta,
                                                    spaceCount \div p.indent.delta, TRUE))]
    ELSE [p EXCEPT !.indent.level = 0]

RECURSIVE parseLineBreaks(_)
\* while(hasAhead(LineBreak)) parseLineBreak()
parseLineBreaks(p) ==
    IF hasAhead(p, "LineBreak") THEN parseLineBreaks(Took(p, 1)) ELSE p

parseComment(p) ==
    [addNode(p, TreeNode("Comment", [comment |-> getTokenOffset(p, 0).raw], <<>>))
        EXCEPT !.matched = [size |-> 1], !.tokenIndex = @ + 1]

\* mutant: the PASS keyword is left at the cursor
parsePass_Staying(p) == addNode(p, TreeNode("Pass", <<>>, <<>>))

parsePass(p) == addNode([p EXCEPT !.tokenIndex = @ + 1], TreeNode("Pass", <<>>, <<>>))

Parameterized(p, declared) == [parser |-> p, declared |-> declared]

RECURSIVE parseParameterizedFrom(_, _)
\* the loop of parseParameterized with declared so far, and the skip of ")"
parseParameterizedFrom(p, declared) ==
    IF hasAhead(p, "CloseParen") THEN Parameterized(Took(p, 1), declared)
    ELSE IF ~hasTokensLeft(p)
    THEN Parameterized(Throw(p, "Runaway variable declaration for ${type}"), declared)
    ELSE IF getTokenOffset(p, 0).type \in {"Word", "Number"}
    THEN parseParameterizedFrom(Took(p, 1), Append(declared, getTokenOffset(p, 0)))
    ELSE IF getTokenOffset(p, 0).type \in {"Comma", "Spaces"}
    THEN parseParameterizedFrom(Took(p, 1), declared)
    ELSE Parameterized(Throw(p, "Unexpected token: " \o dump(getTokenOffset(p, 0))), declared)

parseParameterized(p) == parseParameterizedFrom(p, <<>>)

RECURSIVE declareTypes(_, _, _)
\* for(let { raw } of declared) variableTypes[raw] = type
declareTypes(variableTypes, declared, type) ==
    IF declared = <<>> THEN variableTypes
    ELSE declareTypes(Put(variableTypes, Head(declared).raw, type), Tail(declared), type)

parseTypeDeclaration(p, word) ==
    LET listed == parseParameterized(p)
        type   == word.raw
    IN  IF listed.parser.err # "" THEN listed.parser
        ELSE IF Len(listed.declared) = 0
        THEN Throw(listed.parser, "Expected 1 or more variables for " \o type
                                  \o " variable declaration.")
        ELSE addNode([listed.parser EXCEPT !.variableTypes =
                         IF type = "Array" THEN @
                         ELSE declareTypes(@, listed.declared, type)],
                     TreeNode("Declaration",
                              [type |-> type, declared |-> listed.declared, mutable |-> FALSE],
                              <<>>))

parseMethodEvaluation(p, word) ==
    LET listed == parseParameterized(p)
    IN  IF listed.parser.err # "" THEN listed.parser
        ELSE addNode(listed.parser,
                     TreeNode("MethodCall",
                              [method |-> word, parameters |-> listed.declared], <<>>))

RECURSIVE ExpressionFrom(_, _)
\* the loop of parseAssignmentExpression: the tokens up to a line break
ExpressionFrom(p, expression) ==
    IF ~hasTokensLeft(p) \/ getTokenOffset(p, 0).type = "LineBreak"
    THEN Parameterized(p, expression)
    ELSE ExpressionFrom([p EXCEPT !.tokenIndex = @ + 1],
                        Append(expression, getTokenOffset(p, 0)))

parseAssignmentExpression(p, word) ==
    LET read == ExpressionFrom(p, <<>>)
    IN  addNode(read.parser,
                TreeNode("Assignment",
                         [variable |-> word.raw, expression |-> read.declared], <<>>))

Succeeded(p, succeeded) == [parser |-> p, succeeded |-> succeeded]

parseHeadExpression(p) ==
    LET call   == hasSequenceAhead(p, <<"Word", "OpenParen">>)
        assign == hasSequenceAhead(p, <<"Word", "SetEquals">>)
        word   == getTokenOffset(p, 0)
    IN  IF call.err # "" THEN Succeeded(Throw(p, call.err), FALSE)
        ELSE IF call.found
        THEN IF Has(p.typeContext, word.raw) /\ p.typeContext[word.raw] = "Type"
             THEN Succeeded(parseTypeDeclaration(skipMatched(p, call), word), TRUE)
             ELSE Succeeded(parseMethodEvaluation(skipMatched(p, call), word), TRUE)
        ELSE IF assign.err # "" THEN Succeeded(Throw(p, assign.err), FALSE)
        ELSE IF assign.found
        THEN Succeeded(parseAssignmentExpression(skipMatched(p, assign), word), TRUE)
        ELSE Succeeded(p, FALSE)

parseMutable(p) ==
    LET ahead == hasSequenceAhead(p, <<"Keyword">>)
        head  == parseHeadExpression(skipMatched(p, ahead))
        nodes == head.parser.nodes
    IN  IF ahead.err # "" THEN Throw(p, ahead.err)
        ELSE IF ~ahead.found THEN Throw(p, "Assertion failed")
        ELSE IF head.parser.err # "" THEN head.parser
        ELSE IF ~head.succeeded THEN Throw(head.parser, "Declaration must follow MUTABLE")
        ELSE IF nodes[Len(nodes)].type # "Declaration"
        THEN Throw(head.parser, "Declaration must follow MUTABLE")
        ELSE [head.parser EXCEPT !.nodes[Len(nodes)].value.mutable = TRUE]

KeywordEquals(p, keyName, valueName) ==
    [parser |-> p, keyName |-> keyName, valueName |-> valueName]

parseKeywordEquals(p, name) ==
    LET ahead   == hasSequenceAhead(p, <<"Keyword", "Word", "SetEquals">>)
        skipped == skipMatched(p, ahead)
    IN  IF ahead.err # "" THEN KeywordEquals(Throw(p, ahead.err), "", "")
        ELSE IF ~ahead.found
        THEN KeywordEquals(Throw(p, "Malformed " \o name \o " command"), "", "")
        ELSE IF ~Defined(skipped, 0) THEN KeywordEquals(Throw(skipped, TypeError), "", "")
        ELSE KeywordEquals([skipped EXCEPT !.tokenIndex = @ + 1],
                           findTokenFromOffset(p, 1, "Word"),
                           getTokenOffset(skipped, 0).raw)

parseDefault(p) ==
    LET read == parseKeywordEquals(p, "DEFAULT")
    IN  IF read.parser.err # "" THEN read.parser
        ELSE addNode(read.parser,
                     TreeNode("DefaultDefine",
                              [name |-> read.keyName, default |-> read.valueName], <<>>))

parseDefine(p) ==
    LET read == parseKeywordEquals(p, "DEFINE")
    IN  IF read.parser.err # "" THEN read.parser
        ELSE addNode(read.parser,
                     TreeNode("Define",
                              [name |-> read.keyName, value |-> read.valueName], <<>>))

parseSetMode(p) ==
    LET ahead  == hasSequenceAhead(p, <<"Keyword", "Word", "OpenParen">>)
        listed == parseParameterized(skipMatched(p, ahead))
    IN  IF ahead.err # "" THEN Throw(p, ahead.err)
        ELSE IF ~ahead.found THEN Throw(p, "Malformed SETMODE command")
        ELSE IF listed.parser.err # "" THEN listed.parser
        ELSE addNode(listed.parser,
                     TreeNode("SetMode",
                              [name  |-> findTokenFromOffset(p, 1, "Word"),
                               modes |-> listed.declared], <<>>))

\* a pending call of the parser: parse(minLevel) ("parse"), parseStep(minLevel)
\* ("step"), the rest of the loop body of parse ("check"), the rest of
\* descendParse and of its caller ("endDescend"), the rest of parseStructure
\* ("endStructure")
PFrame(op, minLevel, beforeIndex, nodeLength, type, value) ==
    [op |-> op, minLevel |-> minLevel, beforeIndex |-> beforeIndex,
     nodeLength |-> nodeLength, type |-> type, value |-> value]

\* what a parseStep did up to its return or up to the call it makes: the
\* parser, the value returned, the calls pending
Step(p, done, calls) == [parser |-> p, done |-> done, calls |-> calls]

\* descendParse(baseLevel), and the addNewNode(type, value, children) after it
descendParse(p, baseLevel, type, value) ==
    Step(p, FALSE,
         << PFrame("parse", baseLevel + 1, 0, 0, "", Null),
            PFrame("endDescend", 0, 0, Len(p.nodes), type, value) >>)

RECURSIVE countExpressionFrom(_, _)
\* the loop of parseRepeat; the parser is left on the TIMES ":" it matched
countExpressionFrom(p, countExpression) ==
    LET ahead == hasSequenceAhead(p, <<"Keyword", "Colon">>)
    IN  IF ~hasTokensLeft(p) THEN Parameterized(p, countExpression)
        ELSE IF ahead.err # "" THEN Parameterized(Throw(p, ahead.err), countExpression)
        ELSE IF ahead.found
        THEN Parameterized([p EXCEPT !.matched = [size |-> ahead.size]], countExpression)
        ELSE countExpressionFrom([p EXCEPT !.tokenIndex = @ + 1],
                                 Append(countExpression, getTokenOffset(p, 0)))

parseRepeat(p) ==
    LET read == countExpressionFrom([p EXCEPT !.tokenIndex = @ + 1], <<>>)
        q    == read.parser
    IN  IF q.err # "" THEN Step(q, FALSE, <<>>)
        ELSE IF ~hasTokensLeft(q) THEN Step(Throw(q, "Runaway REPEAT loop"), FALSE, <<>>)
        ELSE IF findTokenFromOffset(q, 0, "Keyword") # "TIMES"
        THEN Step(Throw(q, "Expected TIMES before Colon"), FALSE, <<>>)
        ELSE descendParse([q EXCEPT !.tokenIndex = @ + q.matched.size],
                          q.indent.level, "Repeat", [condition |-> read.declared])

parseStructure(p) ==
    LET ahead   == hasSequenceAhead(p, <<"Keyword", "Word", "Colon">>)
        skipped == skipMatched(p, ahead)
        body    == parseInitialWhitespace(Took(skipped, 1))
    IN  IF ahead.err # "" THEN Step(Throw(p, ahead.err), FALSE, <<>>)
        ELSE IF ~ahead.found THEN Step(Throw(p, "Malformed STRUCTURE command"), FALSE, <<>>)
        ELSE IF ~hasAhead(skipped, "LineBreak")
        THEN Step(Throw(skipped, "Expected line break after STRUCTURE command"), FALSE, <<>>)
        ELSE IF body.err # "" THEN Step(body, FALSE, <<>>)
        ELSE Step(body, FALSE,
                  << PFrame("step", 0, 0, 0, "", Null),
                     PFrame("endStructure", 0, 0, 0, "Structure",
                            [name |-> findTokenFromOffset(p, 1, "Word")]) >>)

RECURSIVE getTokenOffsetNoSpaces(_, _)
\* the raw text of the first token from offset i that is not Spaces
getTokenOffsetNoSpaces(p, i) ==
    IF ~Defined(p, i) THEN TypeError
    ELSE IF getTokenOffset(p, i).type = "Spaces" THEN getTokenOffsetNoSpaces(p, i + 1)
    ELSE getTokenOffset(p, i).raw

\* parseMethodDeclaration from the return type indicator on
parseMethodReturnType(p, methodName, parameters) ==
    LET ahead      == hasSequenceAhead(p, <<"ReturnTypeIndicator", "Word">>)
        typed      == hasAhead(p, "ReturnTypeIndicator")
        returnType == IF typed THEN getTokenOffsetNoSpaces(p, 1) ELSE Null
        q          == IF typed THEN skipMatched(p, ahead) ELSE p
    IN  IF typed /\ ahead.err # "" THEN Step(Throw(p, ahead.err), FALSE, <<>>)
        ELSE IF typed /\ ~ahead.found
        THEN Step(Throw(Took(p, 0), "Malformed return type indicator"), FALSE, <<>>)
        ELSE IF ~hasAhead(q, "Colon")
        THEN Step(Throw(q, "Expected colon following METHOD argument list"), FALSE, <<>>)
        ELSE IF q.indent.level # 0
        THEN Step(Throw(Took(q, 1), "Can only have method declarations at base level"),
                  FALSE, <<>>)
        ELSE descendParse(Took(q, 1), q.indent.level, "MethodDeclaration",
                          [name |-> methodName, parameters |-> parameters,
                           returnType |-> returnType])

parseMethodDeclaration(p) ==
    LET withList == hasSequenceAhead(p, <<"Keyword", "Word", "OpenParen">>)
        plain    == hasSequenceAhead(p, <<"Keyword", "Word">>)
        name     == findTokenFromOffset(p, 1, "Word")
        listed   == parseParameterized(skipMatched(p, withList))
    IN  IF withList.err # "" THEN Step(Throw(p, withList.err), FALSE, <<>>)
        ELSE IF withList.found
        THEN IF listed.parser.err # "" THEN Step(listed.parser, FALSE, <<>>)
             ELSE parseMethodReturnType(listed.parser, name, listed.declared)
        ELSE IF plain.err # "" THEN Step(Throw(p, plain.err), FALSE, <<>>)
        ELSE IF ~plain.found THEN Step(Throw(p, "Malformed METHOD command"), FALSE, <<>>)
        ELSE parseMethodReturnType(skipMatched(p, plain), name, <<>>)

\* the keyword branches of parseStep
parseKeyword(p) ==
    LET keyword == getTokenOffset(p, 0).raw
    IN  CASE keyword = "STRUCTURE" -> parseStructure(p)
          [] keyword = "METHOD"    -> parseMethodDeclaration(p)
          [] keyword = "PASS"      -> Step(parsePass(p), FALSE, <<>>)
          [] keyword = "DEFAULT"   -> Step(parseDefault(p), FALSE, <<>>)
          [] keyword = "DEFINE"    -> Step(parseDefine(p), FALSE, <<>>)
          [] keyword = "SETMODE"   -> Step(parseSetMode(p), FALSE, <<>>)
          [] keyword = "MUTABLE"   -> Step(parseMutable(p), FALSE, <<>>)
          [] keyword = "REPEAT"    -> parseRepeat(p)
          [] OTHER -> Step(Throw(p, "Unhandled keyword: " \o keyword), FALSE, <<>>)

\* parseStep(minLevel), up to its return or to the parse / parseStep it calls
\* mutant: a line too shallow ends the step without the rollback
parseStep_NoRollback(p, minLevel) ==
    LET broken   == parseLineBreaks(p)
        measured == parseInitialWhitespace(broken)
        head     == parseHeadExpression(measured)
    IN  IF ~hasTokensLeft(broken) THEN Step(broken, TRUE, <<>>)
        ELSE IF measured.err # "" THEN Step(measured, FALSE, <<>>)
        ELSE IF ~hasTokensLeft(measured) THEN Step(measured, TRUE, <<>>)
        ELSE IF measured.indent.level < minLevel THEN Step(measured, TRUE, <<>>)
        ELSE IF hasAhead(measured, "Comment") THEN Step(parseComment(measured), FALSE, <<>>)
        ELSE IF hasAhead(measured, "Keyword") THEN parseKeyword(Took(measured, 0))
        ELSE IF head.parser.err # "" THEN Step(head.parser, FALSE, <<>>)
        ELSE IF ~head.succeeded
        THEN Step(Throw(measured, "Unhandled token: " \o dump(getTokenOffset(measured, 0))),
                  FALSE, <<>>)
        ELSE Step(head.parser, FALSE, <<>>)

parseStep(p, minLevel) ==
    LET broken   == parseLineBreaks(p)
        measured == parseInitialWhitespace(broken)
        head     == parseHeadExpression(measured)
    IN  IF ~hasTokensLeft(broken) THEN Step(broken, TRUE, <<>>)
        ELSE IF measured.err # "" THEN Step(measured, FALSE, <<>>)
        ELSE IF ~hasTokensLeft(measured) THEN Step(measured, TRUE, <<>>)
        ELSE IF measured.indent.level < minLevel
        THEN Step([measured EXCEPT !.indent = broken.indent,
                                   !.tokenIndex = broken.tokenIndex], TRUE, <<>>)
        ELSE IF hasAhead(measured, "Comment") THEN Step(parseComment(measured), FALSE, <<>>)
        ELSE IF hasAhead(measured, "Keyword") THEN parseKeyword(Took(measured, 0))
        ELSE IF head.parser.err # "" THEN Step(head.parser, FALSE, <<>>)
        ELSE IF ~head.succeeded
        THEN Step(Throw(measured, "Unhandled token: " \o dump(getTokenOffset(measured, 0))),
                  FALSE, <<>>)
        ELSE Step(head.parser, FALSE, <<>>)

\* makeTree is not called
ParserIdle ==
    /\ parser = NewTreeParser(<<>>)
    /\ pstack = <<>>
    /\ ret = FALSE
    /\ ppc = "idle"

-----------------------------------------------------------------------------
(* CSkeletonizer *)

CTypeMap == [Int |-> "int", Byte |-> "uint8_t", Void |-> "void"]

MAX_TEMPORARY_COUNT == 10

indentCount == 4

TempName(i) == "_temp_" \o ToString(i)

\* the message of toImplement(message), written without its two backquotes
toImplement(message) == "TODO: IMPLEMENT " \o message

NewCSkeletonizer ==
    [ typeInfo     |-> <<>>,
      defineInfo   |-> <<>>,
      codeLines    |-> <<>>,
      includeLines |-> <<"#include <stdint.h>", "#define true (1)", "#define false (0)">>,
      headerLines  |-> <<>>,
      emitLevel    |-> 0,
      temporaries  |-> [i \in 0..(MAX_TEMPORARY_COUNT - 1) |-> FALSE],
      typeMap      |-> CTypeMap,
      err          |-> "" ]

FreeTemporaries(this) ==
    {i \in 0..(MAX_TEMPORARY_COUNT - 1) : ~this.temporaries[i]}

\* mutant: the scan takes the highest-numbered free slot
FirstFree_Highest(this) ==
    CHOOSE i \in FreeTemporaries(this) : \A j \in FreeTemporaries(this) : i >= j

FirstFree(this) ==
    CHOOSE i \in FreeTemporaries(this) : \A j \in FreeTemporaries(this) : i <= j

\* getTemporary: the record after the call; the name it returned is
\* TempName(FirstFree(this)) of the record before it.
getTemporary(this) ==
    IF FreeTemporaries(this) = {}
    THEN Throw(this, "No more temporaries available")
    ELSE [this EXCEPT !.temporaries[FirstFree(this)] = TRUE]

releaseTemporary(this, i) == [this EXCEPT !.temporaries[i] = FALSE]

emitGroupStart(this) == [this EXCEPT !.emitLevel = @ + indentCount]

\* mutant: the group is ended without lowering the counter
emitGroupEnd_Keeping(this) ==
    IF this.emitLevel >= indentCount
    THEN this
    ELSE Throw(this, "No open group to end")

emitGroupEnd(this) ==
    IF this.emitLevel >= indentCount
    THEN [this EXCEPT !.emitLevel = @ - indentCount]
    ELSE Throw(this, "No open group to end")

emit(this, line) ==
    [this EXCEPT !.codeLines = Append(@, Repeated(" ", this.emitLevel) \o line)]

pushHeader(this, line) == [this EXCEPT !.headerLines = Append(@, line)]

CSymbol(token) ==
    IF token.raw = "and" THEN "&&"
    ELSE IF token.raw = "or" THEN "||"
    ELSE IF token.raw = "is" THEN "=="
    ELSE token.raw

IsBlank(token) == token.type \in {"Spaces", "LineBreak"}

RECURSIVE TrimStart(_)
TrimStart(tokens) ==
    IF tokens # <<>> /\ IsBlank(Head(tokens)) THEN TrimStart(Tail(tokens))
    ELSE tokens

RECURSIVE TrimEnd(_)
TrimEnd(tokens) ==
    IF tokens # <<>> /\ IsBlank(tokens[Len(tokens)])
    THEN TrimEnd(SubSeq(tokens, 1, Len(tokens) - 1))
    ELSE tokens

\* getCExpression: the raw texts, three operator spellings translated, joined
\* without separator and trimmed.  The white space of a token sequence is its
\* Spaces and LineBreak tokens, so trimming the joined text is dropping the
\* blank tokens at both ends.
getCExpression(expression) ==
    Join(Map(TrimEnd(TrimStart(expression)), CSymbol), "")


\* obj[key] inside a template literal: a missing key prints as undefined
Lookup(obj, key) == IF Has(obj, key) THEN obj[key] ELSE Undefined

\* obj[key] ?? key
LookupOr(obj, key) == IF Has(obj, key) THEN obj[key] ELSE key

RECURSIVE declareAll(_, _, _)
declareAll(typeInfo, variables, info) ==
    IF variables = <<>> THEN typeInfo
    ELSE declareAll(Put(typeInfo, Head(variables), info), Tail(variables), info)

skDeclaration(this, node) ==
    LET cType     == LookupOr(this.typeMap, node.value.type)
        variables == Map(node.value.declared, Raw)
        info      == [cType |-> cType, mutable |-> node.value.mutable]
        declared  == [this EXCEPT !.typeInfo = declareAll(@, variables, info)]
    IN  emit(declared, cType \o " " \o Join(variables, ", ") \o ";")

DefineLine(variable, cType, cExpression) ==
    "#define " \o variable \o " ((" \o cType \o ") " \o cExpression \o ")"

AssignLine(variable, cExpression) == variable \o " = " \o cExpression \o ";"

\* mutant: the mutable flag is not consulted, every Assignment is a macro
skAssignment_AlwaysMacro(this, node) ==
    IF ~Has(this.typeInfo, node.value.variable)
    THEN Throw(this, "TypeError: Cannot destructure property 'cType' of undefined")
    ELSE emit(this, DefineLine(node.value.variable,
                               this.typeInfo[node.value.variable].cType,
                               getCExpression(node.value.expression)))

\* mutant: the test of the mutable flag is inverted
skAssignment_Inverted(this, node) ==
    IF ~Has(this.typeInfo, node.value.variable)
    THEN Throw(this, "TypeError: Cannot destructure property 'cType' of undefined")
    ELSE IF ~this.typeInfo[node.value.variable].mutable
    THEN emit(this, AssignLine(node.value.variable, getCExpression(node.value.expression)))
    ELSE emit(this, DefineLine(node.value.variable,
                               this.typeInfo[node.value.variable].cType,
                               getCExpression(node.value.expression)))

\* mutant: the type of an undeclared variable is read as undefined and the
\* macro is emitted with it
skAssignment_UndefinedType(this, node) ==
    LET variable    == node.value.variable
        cExpression == getCExpression(node.value.expression)
    IN  IF ~Has(this.typeInfo, variable)
        THEN emit(this, DefineLine(variable, Undefined, cExpression))
        ELSE IF this.typeInfo[variable].mutable
        THEN emit(this, AssignLine(variable, cExpression))
        ELSE emit(this, DefineLine(variable, this.typeInfo[variable].cType, cExpression))

skAssignment(this, node) ==
    LET variable    == node.value.variable
        cExpression == getCExpression(node.value.expression)
    IN  IF ~Has(this.typeInfo, variable)
        THEN Throw(this, "TypeError: Cannot destructure property 'cType' of undefined")
        ELSE IF this.typeInfo[variable].mutable
        THEN emit(this, AssignLine(variable, cExpression))
        ELSE emit(this, DefineLine(variable, this.typeInfo[variable].cType, cExpression))

Bracketed(token) == "[" \o token.raw \o "]"

skStructure(this, node) ==
    IF Len(node.children) # 1
    THEN Throw(this, "Complex structures currently unimplemented")
    ELSE
    LET name  == node.value.name
        child == node.children[1]
        typed == [this EXCEPT !.typeMap = Put(@, name, name)]
    IN  IF child.type \in {"Pass", "Todo"}
        THEN emit(typed, "typedef /* TODO: FILL */ " \o name \o ";")
        ELSE IF child.type # "Declaration"
        THEN Throw(typed, "Structure must have a variable declaration")
        ELSE IF child.value.type = "Array"
        THEN emit(typed, "typedef "
                    \o Lookup(typed.typeMap, child.value.declared[1].raw)
                    \o " " \o name
                    \o Join(Map(Tail(child.value.declared), Bracketed), "") \o ";")
        ELSE Throw(typed, toImplement("Other structure datatypes besides array"))

\* One entry of parsedParameters: a raw text, or (array) the pair of a base
\* type and a dimension suffix.
Plain(raw) == [array |-> FALSE, base |-> raw, suffix |-> ""]

ClosingAfter(parameters, i) ==
    {j \in (i + 1)..Len(parameters) : parameters[j].raw = "]"}

RECURSIVE parseParameters(_, _)
\* The first loop of the MethodDeclaration branch, from index i (1-based).
\* An Array that is not followed by "[" or has no closing "]" is not followed
\* further: the result then ends with an entry marked bad.
parseParameters(parameters, i) ==
    IF i > Len(parameters) THEN <<>>
    ELSE IF parameters[i].raw = "Array"
    THEN IF i + 1 > Len(parameters) \/ ClosingAfter(parameters, i) = {}
         THEN <<[array |-> TRUE, base |-> "bad", suffix |-> "TypeError"]>>
         ELSE IF parameters[i + 1].raw # "["
         THEN <<[array |-> TRUE, base |-> "bad", suffix |-> "Assertion failed"]>>
         ELSE LET j    == CHOOSE k \in ClosingAfter(parameters, i) :
                              \A m \in ClosingAfter(parameters, i) : k <= m
                  dims == Map(SubSeq(parameters, i + 2, j - 1), Raw)
                  base == IF dims = <<>> THEN Undefined ELSE Head(dims)
                  rest == IF dims = <<>> THEN <<>> ELSE Tail(dims)
              IN  <<[array |-> TRUE, base |-> base,
                     suffix |-> Join([d \in 1..Len(rest) |-> "[" \o rest[d] \o "]"], "")]>>
                  \o parseParameters(parameters, j + 1)
    ELSE <<Plain(parameters[i].raw)>> \o parseParameters(parameters, i + 1)

BadParameters(parsed) ==
    {i \in 1..Len(parsed) : parsed[i].array /\ parsed[i].base = "bad"}

\* an entry printed by a template literal
Printed(entry) ==
    IF entry.array THEN entry.base \o "," \o entry.suffix ELSE entry.base

typedParameter(this, cType, paramName) ==
    IF cType.array
    THEN LookupOr(this.typeMap, cType.base) \o " " \o Printed(paramName) \o cType.suffix
    ELSE LookupOr(this.typeMap, cType.base) \o " " \o Printed(paramName)

paramSignature(this, parsed) ==
    LET typed == [k \in 1..(Len(parsed) \div 2) |->
                    typedParameter(this, parsed[2 * k - 1], parsed[2 * k])]
    IN  IF typed = <<>> THEN "void" ELSE Join(typed, ", ")

\* MethodDeclaration, up to the loop over the children
skMethodDeclaration(this, node) ==
    LET name       == node.value.name
        returnType == Lookup(this.typeMap,
                             IF node.value.returnType = Null THEN "Void"
                             ELSE node.value.returnType)
        parsed     == parseParameters(node.value.parameters, 1)
    IN  IF BadParameters(parsed) # {}
        THEN Throw(this, parsed[CHOOSE i \in BadParameters(parsed) : TRUE].suffix)
        ELSE IF Len(parsed) % 2 # 0
        THEN Throw(this, "Expected a list of type-name pairs")
        ELSE emitGroupStart(
               emit(pushHeader(this, "void " \o name \o "(" \o paramSignature(this, parsed) \o ");"),
                    returnType \o " " \o name \o " (" \o paramSignature(this, parsed) \o ") {"))

\* If, ElseIf, While: keyword, condition, up to the loop over the children
skCondition(this, keyword, node) ==
    emitGroupStart(emit(this, keyword \o " (" \o getCExpression(node.value.condition) \o ") {"))

skElse(this, node) == emitGroupStart(emit(this, "else {"))

IsWord(token) == token.type = "Word"

skFor(this, node) ==
    LET cStart == getCExpression(node.value.from)
        words  == SelectSeq(node.value.from, IsWord)
        cEnd   == getCExpression(node.value.to)
    IN  IF words = <<>>
        THEN Throw(this, "TypeError: Cannot read properties of undefined (reading 'raw')")
        ELSE emitGroupStart(emit(this,
                "for(int " \o cStart \o "; " \o words[1].raw \o " <= " \o cEnd
                \o "; " \o words[1].raw \o "++) {"))

\* one pass of the loop over the options of a Choose, up to the option's children
skChooseOption(this, modeName, option) ==
    LET words == SelectSeq(option.value.option, IsWord)
    IN  IF words = <<>>
        THEN Throw(this, "TypeError: Cannot read properties of undefined (reading 'raw')")
        ELSE emitGroupStart(emit(this, "#ifdef " \o modeName \o "_" \o words[1].raw))

CallLine(methodName, joinedParameters) == methodName \o "(" \o joinedParameters \o ");"

\* mutant: the level is not checked
skMethodCall_AnyLevel(this, node, level) ==
    emit(this, CallLine(node.value.method.raw, getCExpression(node.value.parameters)))

skMethodCall(this, node, level) ==
    IF ~(level > 0)
    THEN Throw(this, "Cannot call method at top level")
    ELSE emit(this, CallLine(node.value.method.raw, getCExpression(node.value.parameters)))

skPass(this, node) == emit(this, "//TODO:")

MacroName(name, option) == name \o "_" \o option

\* mutant: only the registration of the mode is asserted
assertValidDefine_ModeOnly(this, name, value) ==
    IF ~Has(this.defineInfo, name)
    THEN Throw(this, "Undefined mode " \o value \o ". Did you forget a SETMODE?")
    ELSE this

assertValidDefine(this, name, value) ==
    IF ~Has(this.defineInfo, name)
    THEN Throw(this, "Undefined mode " \o value \o ". Did you forget a SETMODE?")
    ELSE IF \A i \in 1..Len(this.defineInfo[name].options) :
                this.defineInfo[name].options[i] # value
    THEN Throw(this, value \o " is not a valid mode for " \o name
                     \o ". Valid options include: "
                     \o Join(this.defineInfo[name].options, " | "))
    ELSE this

NotDefined(name, options) ==
    [i \in 1..Len(options) |-> "!defined(" \o MacroName(name, options[i]) \o ")"]

\* mutant: the guard names the other options only, not the default itself
skDefaultDefine_OthersOnly(this, node) ==
    LET name    == node.value.name
        checked == assertValidDefine(this, name, node.value.default)
        others  == SelectSeq(this.defineInfo[name].options,
                             LAMBDA option : option # node.value.default)
    IN  IF checked.err # "" THEN checked
        ELSE pushHeader(
               pushHeader(
                 pushHeader(this, "#if " \o Join(NotDefined(name, others), " && ")),
                 "  #define " \o MacroName(name, node.value.default)),
               "#endif")

skDefaultDefine(this, node) ==
    LET name    == node.value.name
        checked == assertValidDefine(this, name, node.value.default)
    IN  IF checked.err # "" THEN checked
        ELSE pushHeader(
               pushHeader(
                 pushHeader(this, "#if " \o Join(NotDefined(name, this.defineInfo[name].options), " && ")),
                 "  #define " \o MacroName(name, node.value.default)),
               "#endif")

\* mutant: the registry's current selection is not updated
skDefine_CurrentNotSet(this, node) ==
    LET name      == node.value.name
        checked   == assertValidDefine(this, name, node.value.value)
        current   == this.defineInfo[name].current
        undefined == IF current # Null THEN pushHeader(this, "#undef " \o current)
                     ELSE this
    IN  IF checked.err # "" THEN checked
        ELSE pushHeader(undefined, "#define " \o MacroName(name, node.value.value))

skDefine(this, node) ==
    LET name      == node.value.name
        checked   == assertValidDefine(this, name, node.value.value)
        macroName == MacroName(name, node.value.value)
        current   == this.defineInfo[name].current
        undefined == IF current # Null THEN pushHeader(this, "#undef " \o current)
                     ELSE this
    IN  IF checked.err # "" THEN checked
        ELSE [pushHeader(undefined, "#define " \o macroName)
                EXCEPT !.defineInfo[name].current = macroName]

skSetMode(this, node) ==
    LET name    == node.value.name
        options == Map(node.value.modes, Raw)
        full    == [i \in 1..Len(options) |-> MacroName(name, options[i])]
    IN  pushHeader(
          [this EXCEPT !.defineInfo =
              Put(@, name, [current |-> Null, options |-> options])],
          "/** " \o name \o ": " \o Join(full, " | ") \o " **/")

NotSpaces(token) == token.type # "Spaces"

ForLine(temp, conditionExpression) ==
    "for(int " \o temp \o " = 0; " \o temp \o " < " \o conditionExpression
    \o "; " \o temp \o "++) {"

\* Repeat, up to the loop over the children
skRepeat(this, node) ==
    LET conditionExpression ==
            Join(Map(SelectSeq(node.value.condition, NotSpaces), Raw), " ")
        taken == getTemporary(this)
    IN  IF taken.err # "" THEN taken
        ELSE emitGroupStart(emit(taken, ForLine(TempName(FirstFree(this)), conditionExpression)))

skReturn(this, node) ==
    emit(this, "return " \o getCExpression(node.value.expression) \o ";")

\* skeletonizeNode(node, level) up to its loop over the children, if it has one;
\* the rest of a body-owning branch is skGroupEnd.
skeletonizeNode(this, node, level) ==
    CASE node.type = "Comment"           -> this
      [] node.type = "Declaration"       -> skDeclaration(this, node)
      [] node.type = "Assignment"        -> skAssignment(this, node)
      [] node.type = "Structure"         -> skStructure(this, node)
      [] node.type = "MethodDeclaration" -> skMethodDeclaration(this, node)
      [] node.type = "If"                -> skCondition(this, "if", node)
      [] node.type = "While"             -> skCondition(this, "while", node)
      [] node.type = "Choose"            -> this
      [] node.type = "For"               -> skFor(this, node)
      [] node.type = "ElseIf"            -> skCondition(this, "else if", node)
      [] node.type = "Else"              -> skElse(this, node)
      [] node.type = "MethodCall"        -> skMethodCall(this, node, level)
      [] node.type \in {"Pass", "Todo"}  -> skPass(this, node)
      [] node.type = "DefaultDefine"     -> skDefaultDefine(this, node)
      [] node.type = "Define"            -> skDefine(this, node)
      [] node.type = "SetMode"           -> skSetMode(this, node)
      [] node.type = "Repeat"            -> skRepeat(this, node)
      [] node.type = "Return"            -> skReturn(this, node)
      [] OTHER -> Throw(this, toImplement("Symbol(TreeNodeTypes." \o node.type \o ")"))

\* the end of a body-owning branch: emitGroupEnd(), then the closing line
\* mutant: the end of a body hands its loop variable back to the pool
skGroupEnd_Releasing(this, line) ==
    LET ended == emitGroupEnd(this)
        taken == (0..(MAX_TEMPORARY_COUNT - 1)) \ FreeTemporaries(this)
        last  == CHOOSE i \in taken : \A j \in taken : j <= i
    IN  IF ended.err # "" THEN ended
        ELSE IF taken = {} THEN emit(ended, line)
        ELSE releaseTemporary(emit(ended, line), last)

skGroupEnd(this, line) ==
    LET ended == emitGroupEnd(this)
    IN  IF ended.err # "" THEN ended ELSE emit(ended, line)

-----------------------------------------------------------------------------
(* skeletonize(): the walk over the tree *)

Frame(op, node, level, line, modeName) ==
    [op |-> op, node |-> node, level |-> level, line |-> line, modeName |-> modeName]

NodeFrames(nodes, level) ==
    [i \in 1..Len(nodes) |-> Frame("node", nodes[i], level, "", "")]

BodyTypes == {"MethodDeclaration", "If", "While", "For", "ElseIf", "Else", "Repeat"}

\* the calls a frame makes after its opening part, in order
Calls(frame) ==
    IF frame.op = "option"
    THEN NodeFrames(frame.node.children, frame.level + 1)
         \o <<Frame("end", frame.node, frame.level, "#endif", "")>>
    ELSE IF frame.node.type \in BodyTypes
    THEN NodeFrames(frame.node.children, frame.level + 1)
         \o <<Frame("end", frame.node, frame.level, "}", "")>>
    ELSE IF frame.node.type = "Choose"
    THEN [i \in 1..Len(frame.node.children) |->
            Frame("option", frame.node.children[i], frame.level, "", frame.node.value.name)]
    ELSE <<>>

Opened(this, frame) ==
    IF frame.op = "option"
    THEN skChooseOption(this, frame.modeName, frame.node)
    ELSE skeletonizeNode(this, frame.node, frame.level)

Record(frame, ok) ==
    [type  |-> IF frame.op = "option" THEN "Option" ELSE frame.node.type,
     value |-> frame.node.value, level |-> frame.level, ok |-> ok]

NoResult == [pc |-> "none", output |-> "", err |-> ""]

\* new CSkeletonizer(treeNodes), about to run skeletonize()
Constructed(nodes) ==
    /\ treeNodes = nodes
    /\ skel = NewCSkeletonizer
    /\ gstack = NodeFrames(nodes, 0)
    /\ gpc = "run"
    /\ output = ""
    /\ generated = <<>>
    /\ run = 1
    /\ firstResult = NoResult
    /\ ParserIdle
    /\ TokenizerIdle

\* one call of skeletonizeNode (or one pass over a Choose option), up to its children
SkeletonizeNode ==
    /\ gpc = "run"
    /\ gstack # <<>>
    /\ Head(gstack).op \in {"node", "option"}
    /\ LET frame == Head(gstack)
           next  == Opened(skel, frame)
       IN  /\ skel' = next
           /\ generated' = Append(generated, Record(frame, next.err = ""))
           /\ IF next.err # ""
              THEN gpc' = "error" /\ gstack' = <<>>
              ELSE gpc' = "run" /\ gstack' = Calls(frame) \o Tail(gstack)
    /\ UNCHANGED <<treeNodes, output, run, firstResult, pvars, tvars>>

\* the end of a body: emitGroupEnd() and the closing line
GroupEnd ==
    /\ gpc = "run"
    /\ gstack # <<>>
    /\ Head(gstack).op = "end"
    /\ LET next == skGroupEnd(skel, Head(gstack).line)
       IN  /\ skel' = next
           /\ IF next.err # ""
              THEN gpc' = "error" /\ gstack' = <<>>
              ELSE gpc' = "run" /\ gstack' = Tail(gstack)
    /\ UNCHANGED <<treeNodes, output, generated, run, firstResult, pvars, tvars>>

\* mutant: the streams are joined in the order includes, code, header
Text_CodeFirst(this) ==
    Join(this.includeLines \o <<"">> \o this.codeLines \o <<"">> \o this.headerLines, "\n")

Text(this) ==
    Join(this.includeLines \o <<"">> \o this.headerLines \o <<"">> \o this.codeLines, "\n")

\* skeletonize(treeNodes) returns the joined text
Finish ==
    /\ gpc = "run"
    /\ gstack = <<>>
    /\ gpc' = "done"
    /\ output' = Text(skel)
    /\ UNCHANGED <<treeNodes, skel, gstack, generated, run, firstResult, pvars, tvars>>

\* mutant: the second call generates with the generator of the first call
Rerun_Reusing ==
    /\ gpc \in {"done", "error"}
    /\ run = 1
    /\ firstResult' = [pc |-> gpc, output |-> output, err |-> skel.err]
    /\ skel' = [skel EXCEPT !.err = ""]
    /\ gstack' = NodeFrames(treeNodes, 0)
    /\ gpc' = "run"
    /\ output' = ""
    /\ generated' = <<>>
    /\ run' = 2
    /\ UNCHANGED <<treeNodes, pvars, tvars>>

\* skeletonize(treeNodes) is called again on the same tree: a new CSkeletonizer
Rerun ==
    /\ gpc \in {"done", "error"}
    /\ run = 1
    /\ firstResult' = [pc |-> gpc, output |-> output, err |-> skel.err]
    /\ skel' = NewCSkeletonizer
    /\ gstack' = NodeFrames(treeNodes, 0)
    /\ gpc' = "run"
    /\ output' = ""
    /\ generated' = <<>>
    /\ run' = 2
    /\ UNCHANGED <<treeNodes, pvars, tvars>>

NextGen == SkeletonizeNode \/ GroupEnd \/ Finish

NextTwice == NextGen \/ Rerun

-----------------------------------------------------------------------------
(* The trees generation is run on *)

MaxGenNodes == 4
MaxModeNodes == 4
MaxTwiceNodes == 3
MaxRepeats == 11

Word(raw) == Token("Word", raw)
Number(raw) == Token("Number", raw)
Spaces(n) == Token("Spaces", Repeated(" ", n))

Declaration(type, names, mutable) ==
    TreeNode("Declaration", [type |-> type, declared |-> names, mutable |-> mutable], <<>>)
Assignment(variable, expression) ==
    TreeNode("Assignment", [variable |-> variable, expression |-> expression], <<>>)
MethodCall(name, parameters) ==
    TreeNode("MethodCall", [method |-> Word(name), parameters |-> parameters], <<>>)
SetMode(name, modes) ==
    TreeNode("SetMode", [name |-> name, modes |-> modes], <<>>)
Define(name, value) ==
    TreeNode("Define", [name |-> name, value |-> value], <<>>)
DefaultDefine(name, value) ==
    TreeNode("DefaultDefine", [name |-> name, default |-> value], <<>>)
Pass == TreeNode("Pass", <<>>, <<>>)
Structure(name, child) == TreeNode("Structure", [name |-> name], <<child>>)

BodyNode(kind, children) ==
    IF kind = "MethodDeclaration"
    THEN TreeNode(kind, [name |-> "m", parameters |-> <<>>, returnType |-> Null], children)
    ELSE TreeNode("Repeat", [condition |-> <<Spaces(1), Number("3"), Spaces(1)>>], children)

RECURSIVE ForestsOfSize(_, _, _, _)
RECURSIVE TreesOfSize(_, _, _, _)
\* the node lists of n nodes in all, over the leaves; a body-owning node is of
\* a kind of top at the top level and of a kind of nested below it (the parser
\* puts a MethodDeclaration at the top level only)
ForestsOfSize(n, leaves, top, nested) ==
    IF n = 0 THEN {<<>>}
    ELSE UNION {{<<t>> \o rest : t \in TreesOfSize(k, leaves, top, nested),
                                 rest \in ForestsOfSize(n - k, leaves, top, nested)}
                : k \in 1..n}
TreesOfSize(k, leaves, top, nested) ==
    (IF k = 1 THEN leaves ELSE {})
    \cup {BodyNode(kind, body) : kind \in top,
                                 body \in ForestsOfSize(k - 1, leaves, nested, nested)}

Forests(max, leaves, top, nested) ==
    UNION {ForestsOfSize(n, leaves, top, nested) : n \in 0..max}

GenLeaves ==
    { Declaration("Int", <<Word("x")>>, FALSE),
      Declaration("Int", <<Word("x")>>, TRUE),
      Assignment("x", <<Spaces(1), Number("5")>>),
      MethodCall("f", <<Word("x")>>) }

ModeLeaves ==
    { SetMode("M", <<Word("a"), Word("b")>>),
      Define("M", "a"),
      Define("M", "b"),
      Define("M", "c"),
      DefaultDefine("M", "a"),
      DefaultDefine("M", "c") }

InitGen ==
    \E nodes \in Forests(MaxGenNodes, GenLeaves, {"MethodDeclaration", "Repeat"}, {"Repeat"}) :
        Constructed(nodes)

InitMode ==
    \E nodes \in Forests(MaxModeNodes, ModeLeaves, {"MethodDeclaration"}, {}) :
        Constructed(nodes)

RECURSIVE Chain(_)
\* d Repeat nodes nested in one another around a PASS
Chain(d) == IF d = 0 THEN Pass ELSE BodyNode("Repeat", <<Chain(d - 1)>>)

RECURSIVE ChainsOfSize(_)
\* the node lists of n Repeat nodes in all, as siblings and nested
ChainsOfSize(n) ==
    IF n = 0 THEN {<<>>}
    ELSE UNION {{<<Chain(k)>> \o rest : rest \in ChainsOfSize(n - k)} : k \in 1..n}

InitRepeat ==
    \E n \in 0..MaxRepeats : \E nodes \in ChainsOfSize(n) : Constructed(nodes)

SpecRepeat == InitRepeat /\ [][NextGen]_vars

TwiceLeaves ==
    { Declaration("Int", <<Word("x")>>, FALSE),
      Declaration("S", <<Word("y")>>, TRUE),
      Assignment("x", <<Spaces(1), Number("5")>>),
      MethodCall("f", <<Word("x")>>),
      SetMode("M", <<Word("a"), Word("b")>>),
      Define("M", "a"),
      Structure("S", Pass) }

InitTwice ==
    \E nodes \in Forests(MaxTwiceNodes, TwiceLeaves, {"MethodDeclaration", "Repeat"}, {"Repeat"}) :
        Constructed(nodes)

SpecTwice == InitTwice /\ [][NextTwice]_vars

SpecGen == InitGen /\ [][NextGen]_vars

MaxBodyDepth == 2

BodyKinds ==
    {"MethodDeclaration", "If", "ElseIf", "Else", "While", "For", "Repeat", "Choose"}

ChooseOption(word, children) ==
    TreeNode("ChooseOption", [option |-> <<Spaces(1), Word(word)>>], children)

\* a node of the kind that owns the children
BodyOf(kind, children) ==
    CASE kind \in {"MethodDeclaration", "Repeat"} -> BodyNode(kind, children)
      [] kind \in {"If", "ElseIf", "While"} ->
            TreeNode(kind, [condition |-> <<Spaces(1), Word("x")>>], children)
      [] kind = "Else" -> TreeNode(kind, <<>>, children)
      [] kind = "For" ->
            TreeNode(kind, [from |-> <<Spaces(1), Word("i"), Spaces(1), Token("SetEquals", "="),
                                       Spaces(1), Number("1"), Spaces(1)>>,
                            to   |-> <<Spaces(1), Number("3")>>], children)
      [] kind = "Choose" ->
            TreeNode(kind, [name |-> "M"],
                     <<ChooseOption("a", children), ChooseOption("b", <<Pass>>)>>)

RECURSIVE Nested(_)
\* PASS, and the nodes of every kind around no child, one child and two
\* children, nested to depth d
Nested(d) ==
    IF d = 0 THEN {Pass}
    ELSE {Pass}
         \cup {BodyOf(kind, <<>>) : kind \in BodyKinds}
         \cup {BodyOf(kind, <<child>>) : kind \in BodyKinds, child \in Nested(d - 1)}
         \cup {BodyOf(kind, <<child, Pass>>) : kind \in BodyKinds, child \in Nested(d - 1)}

InitBodies ==
    \E tree \in Nested(MaxBodyDepth) :
        Constructed(<<tree>>) \/ Constructed(<<tree, Pass>>)

SpecBodies == InitBodies /\ [][NextGen]_vars

MaxSignatureMethods == 2

Method(name, parameters, returnType, children) ==
    TreeNode("MethodDeclaration",
             [name |-> name, parameters |-> parameters, returnType |-> returnType],
             children)

\* methods without and with a return type, without and with parameters
SignatureMethods ==
    {Method("m", parameters, returnType, children) :
        parameters \in {<<>>, <<Word("Int"), Word("a")>>,
                        <<Word("Int"), Word("a"), Word("Byte"), Word("b")>>},
        returnType \in {Null, "Int", "Byte"},
        children \in {<<>>, <<Pass>>}}

RECURSIVE MethodLists(_)
MethodLists(n) ==
    IF n = 0 THEN {<<>>}
    ELSE {<<>>} \cup {<<method>> \o rest : method \in SignatureMethods,
                                           rest \in MethodLists(n - 1)}

InitSignatures == \E nodes \in MethodLists(MaxSignatureMethods) : Constructed(nodes)

SpecSignatures == InitSignatures /\ [][NextGen]_vars

SpecMode == InitMode /\ [][NextGen]_vars

-----------------------------------------------------------------------------
(* makeTree(tokens): the calls of parse and parseStep *)

GeneratorIdle ==
    /\ treeNodes = <<>>
    /\ skel = NewCSkeletonizer
    /\ gstack = <<>>
    /\ gpc = "idle"
    /\ output = ""
    /\ generated = <<>>
    /\ run = 1
    /\ firstResult = NoResult

\* new TreeParser(tokens), about to call parse()
MakeTree(tokens) ==
    /\ parser = NewTreeParser(tokens)
    /\ pstack = <<PFrame("parse", 0, 0, 0, "", Null)>>
    /\ ret = FALSE
    /\ ppc = "run"
    /\ GeneratorIdle
    /\ TokenizerIdle

\* the test of the while loop of parse: into the loop body, or return
ParseLoop ==
    /\ ppc = "run"
    /\ pstack # <<>>
    /\ Head(pstack).op = "parse"
    /\ pstack' = IF hasTokensLeft(parser)
                 THEN << PFrame("step", Head(pstack).minLevel, 0, 0, "", Null),
                         PFrame("check", 0, parser.tokenIndex, 0, "", Null) >> \o pstack
                 ELSE Tail(pstack)
    /\ UNCHANGED <<parser, ret, ppc, gvars, tvars>>

\* one call of parseStep, up to its return or to the call it makes
ParseStep ==
    /\ ppc = "run"
    /\ pstack # <<>>
    /\ Head(pstack).op = "step"
    /\ LET stepped == parseStep(parser, Head(pstack).minLevel)
       IN  /\ parser' = stepped.parser
           /\ IF stepped.parser.err # ""
              THEN ppc' = "error" /\ pstack' = <<>> /\ ret' = ret
              ELSE ppc' = ppc /\ pstack' = stepped.calls \o Tail(pstack)
                   /\ ret' = stepped.done
    /\ UNCHANGED <<gvars, tvars>>

\* mutant: a step that returned done does not end the loop
LoopCheck_NoBreak ==
    /\ ppc = "run"
    /\ pstack # <<>>
    /\ Head(pstack).op = "check"
    /\ IF ~(ret \/ Head(pstack).beforeIndex < parser.tokenIndex)
       THEN /\ parser' = Throw(parser, "parseStep() should be strictly increasing token index")
            /\ ppc' = "error"
            /\ pstack' = <<>>
       ELSE /\ pstack' = Tail(pstack)
            /\ UNCHANGED <<parser, ppc>>
    /\ UNCHANGED <<ret, gvars, tvars>>

\* the rest of the loop body of parse: the assertion, and the break
LoopCheck ==
    /\ ppc = "run"
    /\ pstack # <<>>
    /\ Head(pstack).op = "check"
    /\ IF ~(ret \/ Head(pstack).beforeIndex < parser.tokenIndex)
       THEN /\ parser' = Throw(parser, "parseStep() should be strictly increasing token index")
            /\ ppc' = "error"
            /\ pstack' = <<>>
       ELSE /\ pstack' = IF ret THEN Tail(Tail(pstack)) ELSE Tail(pstack)
            /\ UNCHANGED <<parser, ppc>>
    /\ UNCHANGED <<ret, gvars, tvars>>

\* the rest of descendParse (nodes.splice) and the addNewNode of its caller,
\* whose parseStep then returns false
EndDescend ==
    /\ ppc = "run"
    /\ pstack # <<>>
    /\ Head(pstack).op = "endDescend"
    /\ LET nodeLength == Head(pstack).nodeLength
           children   == SubSeq(parser.nodes, nodeLength + 1, Len(parser.nodes))
       IN  parser' = [parser EXCEPT !.nodes =
                        Append(SubSeq(@, 1, nodeLength),
                               TreeNode(Head(pstack).type, Head(pstack).value, children))]
    /\ pstack' = Tail(pstack)
    /\ ret' = FALSE
    /\ UNCHANGED <<ppc, gvars, tvars>>

\* nodes.pop() of an empty array
UndefinedNode == TreeNode(Undefined, Null, <<>>)

\* the rest of parseStructure: nodes.pop() and addNewNode, then return false
EndStructure ==
    /\ ppc = "run"
    /\ pstack # <<>>
    /\ Head(pstack).op = "endStructure"
    /\ LET nodes == parser.nodes
           node  == IF nodes = <<>> THEN UndefinedNode ELSE nodes[Len(nodes)]
           kept  == IF nodes = <<>> THEN <<>> ELSE SubSeq(nodes, 1, Len(nodes) - 1)
       IN  parser' = [parser EXCEPT !.nodes =
                        Append(kept, TreeNode("Structure", Head(pstack).value, <<node>>))]
    /\ pstack' = Tail(pstack)
    /\ ret' = FALSE
    /\ UNCHANGED <<ppc, gvars, tvars>>

\* parse() returned this.nodes to makeTree
Return ==
    /\ ppc = "run"
    /\ pstack = <<>>
    /\ ppc' = "done"
    /\ UNCHANGED <<parser, pstack, ret, gvars, tvars>>

NextParse == ParseLoop \/ ParseStep \/ LoopCheck \/ EndDescend \/ EndStructure \/ Return

-----------------------------------------------------------------------------
(* The token lists the parser is run on, as tokenize returns them *)

MaxLines == 3

Keyword(raw) == Token("Keyword", raw)
Colon == Token("Colon", ":")
LineBreak == Token("LineBreak", "\n")
OpenParen == Token("OpenParen", "(")
CloseParen == Token("CloseParen", ")")
Comma == Token("Comma", ",")
SetEquals == Token("SetEquals", "=")
Operator(raw) == Token("Operator", raw)

\* the tokens of a line: its leading run of width spaces, then its statement
Line(width, statement) ==
    (IF width = 0 THEN <<>> ELSE <<Spaces(width)>>) \o statement

PassLine == <<Keyword("PASS")>>
RepeatLine == <<Keyword("REPEAT"), Spaces(1), Number("2"), Spaces(1), Keyword("TIMES"), Colon>>
MethodLine == <<Keyword("METHOD"), Spaces(1), Word("m"), Colon>>
StructureLine == <<Keyword("STRUCTURE"), Spaces(1), Word("S"), Colon>>

RECURSIVE ProgramsOfLength(_, _)
\* the token lists of n lines, one line break between two lines
ProgramsOfLength(n, lines) ==
    IF n = 0 THEN {<<>>}
    ELSE IF n = 1 THEN lines
    ELSE {line \o <<LineBreak>> \o rest : line \in lines, rest \in ProgramsOfLength(n - 1, lines)}

Programs(max, lines) == UNION {ProgramsOfLength(n, lines) : n \in 0..max}

IndentWidths == {0, 2, 3, 4}

IndentLines ==
    {Line(width, statement) : width \in IndentWidths, statement \in {PassLine, RepeatLine}}
    \cup {Line(0, MethodLine), Line(0, StructureLine)}

InitParse == \E tokens \in Programs(MaxLines, IndentLines) : MakeTree(tokens)

SpecParse == InitParse /\ [][NextParse]_vars

-----------------------------------------------------------------------------
(* Head expressions and MUTABLE: the token lists makeTree is run on *)

MaxDeclareLines == 3

\* name(x)
CallLine_(name) == <<Word(name), OpenParen, Word("x"), CloseParen>>

\* x = 1
AssignLine_ == <<Word("x"), Spaces(1), SetEquals, Spaces(1), Number("1")>>

\* MUTABLE, then the statement on the same line
Mutable(statement) ==
    IF statement = <<>> THEN <<Keyword("MUTABLE")>>
    ELSE <<Keyword("MUTABLE"), Spaces(1)>> \o statement

\* STRUCTURE S: with the body PASS, then S(x)
StructureThenS ==
    Line(0, StructureLine) \o <<LineBreak>> \o Line(2, PassLine)
        \o <<LineBreak>> \o CallLine_("S")

DeclareLines ==
    { Line(0, StructureLine), Line(2, PassLine), Line(0, RepeatLine),
      CallLine_("Int"), CallLine_("S"), CallLine_("f"), AssignLine_,
      Mutable(CallLine_("Int")), Mutable(CallLine_("f")), Mutable(AssignLine_),
      Mutable(<<>>) }

InitDeclare == \E tokens \in Programs(MaxDeclareLines, DeclareLines) : MakeTree(tokens)

SpecDeclare == InitDeclare /\ [][NextParse]_vars

MaxLoopLines == 2

\* lines that descend into a body or loop over tokens
LoopLines ==
    { Line(0, RepeatLine), Line(2, PassLine), Line(0, StructureLine),
      CallLine_("Int"), AssignLine_,
      <<Keyword("SETMODE"), Spaces(1), Word("M"), OpenParen, Word("a")>> }

InitLoops == \E tokens \in Programs(MaxLoopLines, LoopLines) : MakeTree(tokens)

MaxBlockLines == 3

BlockWidths == {0, 2, 4}

\* lines of bodies and of structures, at the margin and indented
BlockLines ==
    {Line(width, statement) : width \in BlockWidths,
                              statement \in {PassLine, RepeatLine, StructureLine}}
    \cup {Line(0, MethodLine)}

\* the texts of the lines, with and without a line break or a run of spaces
\* after the last line
BlockTexts ==
    LET programs == Programs(MaxBlockLines, BlockLines)
    IN  programs \cup {tokens \o <<LineBreak>> : tokens \in programs}
                 \cup {tokens \o <<Spaces(1)>> : tokens \in programs}

InitBlocks == \E tokens \in BlockTexts : MakeTree(tokens)

SpecBlocks == InitBlocks /\ [][NextParse]_vars

\* a call of makeTree that has not returned or thrown
Running == ppc = "run"

\* makeTree runs on: a call in progress takes its next step. Some action of
\* NextParse is enabled exactly in the Running states, so the last conjunct
\* is weak fairness of NextParse written with that enabling condition
SpecLoops ==
    /\ InitLoops /\ [][NextParse]_vars
    /\ WF_vars(Return)
    /\ ([]<>(~Running) \/ []<><<NextParse>>_vars)

-----------------------------------------------------------------------------
(* METHOD lines at and below the base level: the token lists makeTree is run on *)

MaxMethodLines == 3

MethodLines ==
    {Line(width, statement) : width \in {0, 2},
                              statement \in {PassLine, RepeatLine, MethodLine}}
    \cup {Line(0, StructureLine)}

InitMethods == \E tokens \in Programs(MaxMethodLines, MethodLines) : MakeTree(tokens)

SpecMethods == InitMethods /\ [][NextParse]_vars

-----------------------------------------------------------------------------
(* SETMODE, DEFAULT and DEFINE lines: the token lists makeTree is run on *)

MaxCommandLines == 3

\* keyword name = value, with the value tokens given
KeywordEqualsLine(keyword, value) ==
    <<Keyword(keyword), Spaces(1), Word("M"), Spaces(1), SetEquals>> \o value

\* SETMODE M(a, b) / DEFAULT M = a / DEFINE M = b
WellFormedCommands ==
    { <<Keyword("SETMODE"), Spaces(1), Word("M"), OpenParen, Word("a"), Comma,
        Spaces(1), Word("b"), CloseParen>>,
      KeywordEqualsLine("DEFAULT", <<Spaces(1), Word("a")>>),
      KeywordEqualsLine("DEFINE", <<Spaces(1), Word("b")>>) }

\* DEFINE M = 5 / DEFINE M = / DEFINE M / DEFAULT M a / SETMODE M(a
DeviatingCommands ==
    { KeywordEqualsLine("DEFINE", <<Spaces(1), Number("5")>>),
      KeywordEqualsLine("DEFINE", <<>>),
      <<Keyword("DEFINE"), Spaces(1), Word("M")>>,
      <<Keyword("DEFAULT"), Spaces(1), Word("M"), Spaces(1), Word("a")>>,
      <<Keyword("SETMODE"), Spaces(1), Word("M"), OpenParen, Word("a")>> }

CommandLines ==
    WellFormedCommands \cup DeviatingCommands
    \cup {Line(0, StructureLine), Line(2, PassLine), Line(0, RepeatLine)}

InitCommands == \E tokens \in Programs(MaxCommandLines, CommandLines) : MakeTree(tokens)

SpecCommands == InitCommands /\ [][NextParse]_vars

-----------------------------------------------------------------------------
(* The pipeline of test.js: makeTree(tokens), then skeletonize(treeNodes) *)

\* let skeletonCode = skeletonize(treeNodes), on the nodes makeTree returned
Skeletonize ==
    /\ ppc = "done"
    /\ gpc = "idle"
    /\ treeNodes' = parser.nodes
    /\ skel' = NewCSkeletonizer
    /\ gstack' = NodeFrames(parser.nodes, 0)
    /\ gpc' = "run"
    /\ UNCHANGED <<output, generated, run, firstResult, pvars, tvars>>

NextPipeline == NextParse \/ Skeletonize \/ NextGen

MaxPipelineLines == 3

\* METHOD f(Int a, Int b):
MethodParametersLine ==
    << Keyword("METHOD"), Spaces(1), Word("f"), OpenParen,
       Word("Int"), Spaces(1), Word("a"), Comma, Spaces(1),
       Word("Int"), Spaces(1), Word("b"), CloseParen, Colon >>

\* RETURN a + b
ReturnLine ==
    << Keyword("RETURN"), Spaces(1), Word("a"), Spaces(1), Operator("+"),
       Spaces(1), Word("b") >>

\* METHOD f(Int a, Int b): with the body RETURN a + b
MethodWithReturn == Line(0, MethodParametersLine) \o <<LineBreak>> \o Line(2, ReturnLine)

\* STRUCTURE S: followed by two lines one level deeper
StructureWithTwoLines ==
    Line(0, StructureLine) \o <<LineBreak>> \o Line(2, PassLine)
        \o <<LineBreak>> \o Line(2, PassLine)

PipelineLines ==
    { Line(0, MethodParametersLine), Line(2, ReturnLine), Line(0, MethodLine),
      Line(0, StructureLine), Line(0, RepeatLine), Line(0, PassLine), Line(2, PassLine) }

InitPipeline == \E tokens \in Programs(MaxPipelineLines, PipelineLines) : MakeTree(tokens)

SpecPipeline == InitPipeline /\ [][NextPipeline]_vars

-----------------------------------------------------------------------------
(* The source texts tokenize is run on *)

MaxChars == 4

TextChars == {"I", "F", " ", "\t", "\n", "/", "#"}

Texts(max) == UNION {[1..n -> TextChars] : n \in 0..max}

\* tokenize(text), about to enter its loop
Tokenizing(string) ==
    /\ lex = NewTokenize(string)
    /\ tpc = "run"
    /\ ParserIdle
    /\ GeneratorIdle

InitTokenize == \E string \in Texts(MaxChars) : Tokenizing(string)

SpecTokenize == InitTokenize /\ [][NextTokenize]_vars

-----------------------------------------------------------------------------
(* Properties of the generator *)

\* skeletonizeNode is about to be called on a node of this type
Generating(type) ==
    /\ gpc = "run"
    /\ gstack # <<>>
    /\ Head(gstack).op = "node"
    /\ Head(gstack).node.type = type

Declares(entry, name) ==
    /\ entry.type = "Declaration"
    /\ \E k \in 1..Len(entry.value.declared) : entry.value.declared[k].raw = name

DeclarationsOf(name) == {i \in 1..Len(generated) : Declares(generated[i], name)}

LatestDeclarationOf(name) ==
    generated[CHOOSE i \in DeclarationsOf(name) : \A j \in DeclarationsOf(name) : j <= i]

Indentation == Repeated(" ", skel.emitLevel)

\* the Assignment about to be generated appends exactly this line, and no other
AssignmentEmits(line) ==
    /\ skel'.err = ""
    /\ skel'.codeLines = Append(skel.codeLines, Indentation \o line)
    /\ skel'.headerLines = skel.headerLines

TargetVariable == Head(gstack).node.value.variable

TargetExpression == getCExpression(Head(gstack).node.value.expression)

\* C3 as claimed: an Assignment to a name that some earlier Declaration declared
\* without MUTABLE emits the #define binding and no runtime write.
C3_AsClaimed ==
    [][ ( /\ Generating("Assignment")
          /\ \E i \in DeclarationsOf(TargetVariable) : ~generated[i].value.mutable )
        => AssignmentEmits(DefineLine(TargetVariable,
                                      CTypeMap[LatestDeclarationOf(TargetVariable).value.type],
                                      TargetExpression)) ]_vars

\* C3 (amended): an Assignment to a name whose latest Declaration generated
\* before it is without MUTABLE emits the binding #define name ((type) expr),
\* and only it: no runtime write name = expr; is emitted for that Assignment.
C3_ImmutableAssignmentIsMacro ==
    [][ ( /\ Generating("Assignment")
          /\ DeclarationsOf(TargetVariable) # {}
          /\ ~LatestDeclarationOf(TargetVariable).value.mutable )
        => AssignmentEmits(DefineLine(TargetVariable,
                                      CTypeMap[LatestDeclarationOf(TargetVariable).value.type],
                                      TargetExpression)) ]_vars

\* an Assignment to x was generated inside a body, after x was declared MUTABLE
\* and then declared again without MUTABLE, and the macro is the last line
C3_Witness ==
    /\ Len(generated) >= 3
    /\ generated[Len(generated)].type = "Assignment"
    /\ generated[Len(generated)].ok
    /\ \E i, j \in 1..(Len(generated) - 1) :
          /\ i < j
          /\ Declares(generated[i], "x") /\ generated[i].value.mutable
          /\ Declares(generated[j], "x") /\ ~generated[j].value.mutable
          /\ \A k \in DeclarationsOf("x") : k <= j
    /\ skel.emitLevel > 0
    /\ skel.codeLines[Len(skel.codeLines)] = Indentation \o "#define x ((int) 5)"

Extends(a, b) == Len(a) >= Len(b) /\ SubSeq(a, 1, Len(b)) = b

\* C18: each stream only grows at its end while the tree is generated, and
\* the text skeletonize returns is the lines of the include stream, an empty
\* line, the lines of the header stream, an empty line and the lines of the
\* code stream, joined by line feeds: every header line comes before every
\* code line, whatever the order in which they were produced
C18_TextIsIncludesHeaderCode ==
    [][ /\ Extends(skel'.includeLines, skel.includeLines)
        /\ Extends(skel'.headerLines, skel.headerLines)
        /\ Extends(skel'.codeLines, skel.codeLines)
        /\ gpc' = "done" =>
              output' = Join(skel.includeLines \o <<"">> \o skel.headerLines
                             \o <<"">> \o skel.codeLines, "\n") ]_vars

\* skeletonize returned the text of a tree whose first node, a Declaration,
\* produced a code line before the MethodDeclaration after it produced the
\* header line
C18_Witness ==
    /\ gpc = "done"
    /\ Len(generated) >= 2
    /\ generated[1].type = "Declaration"
    /\ generated[2].type = "MethodDeclaration"
    /\ skel.codeLines[1] = "int x;"
    /\ Len(skel.headerLines) = 1
    /\ output = Join(skel.includeLines, "\n") \o "\n\n" \o skel.headerLines[1]
                 \o "\n\n" \o Join(skel.codeLines, "\n")

\* C4 as claimed: once a name has been declared with MUTABLE, every later
\* Assignment to it emits the plain statement, whatever was declared in between.
C4_AsClaimed ==
    [][ ( /\ Generating("Assignment")
          /\ \E i \in DeclarationsOf(TargetVariable) : generated[i].value.mutable )
        => AssignmentEmits(AssignLine(TargetVariable, TargetExpression)) ]_vars

\* C4 (amended): an Assignment to a name whose latest Declaration generated
\* before it is with MUTABLE emits the plain statement name = expr; and no
\* #define, after any sequence of intervening nodes that do not declare the
\* name again.
C4_MutableAssignmentIsWrite ==
    [][ ( /\ Generating("Assignment")
          /\ DeclarationsOf(TargetVariable) # {}
          /\ LatestDeclarationOf(TargetVariable).value.mutable )
        => AssignmentEmits(AssignLine(TargetVariable, TargetExpression)) ]_vars

\* x was declared MUTABLE, another node was generated, then x was assigned twice
C4_Witness ==
    /\ Len(generated) >= 4
    /\ generated[Len(generated)].type = "Assignment"
    /\ generated[Len(generated)].ok
    /\ generated[Len(generated) - 1].type = "Assignment"
    /\ generated[Len(generated) - 2].type \notin {"Assignment", "Declaration"}
    /\ DeclarationsOf("x") # {}
    /\ LatestDeclarationOf("x").value.mutable
    /\ Len(skel.codeLines) >= 2
    /\ skel.codeLines[Len(skel.codeLines)] = Indentation \o "x = 5;"
    /\ skel.codeLines[Len(skel.codeLines) - 1] = Indentation \o "x = 5;"

\* C7: a MethodCall at level 0 fails with 'Cannot call method at top level' and
\* leaves both streams as they were; at a level above 0 it does not fail and
\* appends the line callee(args); at the current emit indentation.
C7_MethodCallNeedsBody ==
    [][ Generating("MethodCall")
        => IF Head(gstack).level = 0
           THEN /\ skel'.err = "Cannot call method at top level"
                /\ gpc' = "error"
                /\ skel'.codeLines = skel.codeLines
                /\ skel'.headerLines = skel.headerLines
           ELSE /\ skel'.err = ""
                /\ gpc' = "run"
                /\ skel'.codeLines =
                      Append(skel.codeLines,
                             Indentation \o Head(gstack).node.value.method.raw \o "("
                             \o getCExpression(Head(gstack).node.value.parameters) \o ");")
                /\ skel'.headerLines = skel.headerLines ]_vars

\* generation stopped on a top-level call that follows other nodes
C7_Witness ==
    /\ gpc = "error"
    /\ skel.err = "Cannot call method at top level"
    /\ Len(generated) >= 2
    /\ generated[Len(generated)].type = "MethodCall"
    /\ generated[Len(generated)].level = 0
    /\ \E i \in 1..(Len(generated) - 1) :
          generated[i].type = "MethodCall" /\ generated[i].level > 0 /\ generated[i].ok

SetModesOf(name) ==
    {i \in 1..Len(generated) : generated[i].type = "SetMode" /\ generated[i].value.name = name}

LatestSetModeOf(name) ==
    CHOOSE i \in SetModesOf(name) : \A j \in SetModesOf(name) : j <= i

RegisteredModes == {generated[i].value.name : i \in {j \in 1..Len(generated) : generated[j].type = "SetMode"}}

\* the options of the Define nodes generated for the mode since its latest SetMode
DefinedSince(name) ==
    LET from == LatestSetModeOf(name)
        IsDefine(entry) == entry.type = "Define" /\ entry.value.name = name /\ entry.ok
    IN  [i \in 1..Len(SelectSeq(SubSeq(generated, from + 1, Len(generated)), IsDefine)) |->
            SelectSeq(SubSeq(generated, from + 1, Len(generated)), IsDefine)[i].value.value]

ModeComment(name) ==
    LET options == generated[LatestSetModeOf(name)].value.modes
    IN  "/** " \o name \o ": "
        \o Join([i \in 1..Len(options) |-> name \o "_" \o options[i].raw], " | ") \o " **/"

\* the header lines pushed since the latest SetMode of the mode pushed its comment
HeaderSince(name) ==
    LET at == CHOOSE i \in 1..Len(skel.headerLines) :
                  /\ skel.headerLines[i] = ModeComment(name)
                  /\ \A j \in (i + 1)..Len(skel.headerLines) :
                        skel.headerLines[j] # ModeComment(name)
    IN  SubSeq(skel.headerLines, at + 1, Len(skel.headerLines))

IsSwitch(name, line) ==
    \E i \in 1..Len(generated[LatestSetModeOf(name)].value.modes) :
        LET option == generated[LatestSetModeOf(name)].value.modes[i].raw
        IN  line \in {"#define " \o name \o "_" \o option, "#undef " \o name \o "_" \o option}

RECURSIVE ExpectedSwitches(_, _, _)
\* #define m_o1, then #undef m_o(i-1), #define m_oi for each further option
ExpectedSwitches(name, options, previous) ==
    IF options = <<>> THEN <<>>
    ELSE (IF previous = "" THEN <<>> ELSE <<"#undef " \o name \o "_" \o previous>>)
         \o <<"#define " \o name \o "_" \o Head(options)>>
         \o ExpectedSwitches(name, Tail(options), Head(options))

\* C5: after a SetMode for mode m followed by N Define nodes for m (options
\* o_1..o_N), the header holds, in order, #define m_o_1 and then for each i > 1
\* #undef m_o_(i-1) immediately followed by #define m_o_i, and the registry's
\* current selection is m_o_N (none when N = 0).
C5_DefinesSwitchTheMode ==
    \A name \in RegisteredModes :
        LET options == DefinedSince(name)
            header  == HeaderSince(name)
        IN  /\ SelectSeq(header, LAMBDA line : IsSwitch(name, line))
                 = ExpectedSwitches(name, options, "")
            /\ \A i \in 1..Len(header) :
                  (\E o \in {options[k] : k \in 1..Len(options)} :
                        header[i] = "#undef " \o name \o "_" \o o)
                  => /\ i < Len(header)
                     /\ IsSwitch(name, header[i + 1])
            /\ skel.defineInfo[name].current =
                  IF options = <<>> THEN Null
                  ELSE name \o "_" \o options[Len(options)]

\* generation is done on SetMode M(a, b), Define M=a, Define M=b, Define M=a
C5_Witness ==
    /\ gpc = "done"
    /\ "M" \in RegisteredModes
    /\ DefinedSince("M") = <<"a", "b", "a">>
    /\ skel.headerLines = <<"/** M: M_a | M_b **/", "#define M_a", "#undef M_a",
                            "#define M_b", "#undef M_b", "#define M_a">>
    /\ skel.defineInfo["M"].current = "M_a"

DefaultOption == Head(gstack).node.value.default

\* C6: a DefaultDefine for a registered mode m with a registered option d pushes
\* exactly three header lines: #if with the conjunction, in registration order,
\* of !defined(m_o) over every registered option o, the define of m_d, #endif.
C6_DefaultDefineBlock ==
    [][ ( /\ Generating("DefaultDefine")
          /\ SetModesOf(Head(gstack).node.value.name) # {}
          /\ \E i \in 1..Len(generated[LatestSetModeOf(Head(gstack).node.value.name)].value.modes) :
                generated[LatestSetModeOf(Head(gstack).node.value.name)].value.modes[i].raw
                    = DefaultOption )
        => LET name    == Head(gstack).node.value.name
               options == generated[LatestSetModeOf(name)].value.modes
           IN  /\ skel'.err = ""
               /\ skel'.headerLines = skel.headerLines \o
                    << "#if " \o Join([i \in 1..Len(options) |->
                                "!defined(" \o name \o "_" \o options[i].raw \o ")"], " && "),
                       "  #define " \o name \o "_" \o DefaultOption,
                       "#endif" >>
               /\ skel'.codeLines = skel.codeLines
               /\ skel'.defineInfo = skel.defineInfo ]_vars

\* DEFAULT M=a was generated after SETMODE M(a, b) and a DEFINE
C6_Witness ==
    /\ Len(generated) >= 3
    /\ generated[Len(generated)].type = "DefaultDefine"
    /\ generated[Len(generated)].ok
    /\ generated[Len(generated) - 1].type = "Define"
    /\ Len(skel.headerLines) >= 3
    /\ SubSeq(skel.headerLines, Len(skel.headerLines) - 2, Len(skel.headerLines))
          = <<"#if !defined(M_a) && !defined(M_b)", "  #define M_a", "#endif">>

\* the option a Define or DefaultDefine node selects
SelectedOption(node) ==
    IF node.type = "Define" THEN node.value.value ELSE node.value.default

\* the options registered by the latest SetMode generated for the mode
RegisteredOptions(name) == Map(generated[LatestSetModeOf(name)].value.modes, Raw)

Allocated == {i \in 0..(MAX_TEMPORARY_COUNT - 1) : skel.temporaries[i]}

RepeatsGenerated == {i \in 1..Len(generated) : generated[i].type = "Repeat"}

EndOf(type) ==
    /\ gpc = "run"
    /\ gstack # <<>>
    /\ Head(gstack).op = "end"
    /\ Head(gstack).node.type = type

\* C8: generating a Repeat while a slot is free takes the lowest-numbered free
\* slot and marks it allocated (slot 0 for the first Repeat of a run), emits
\* for(int T = 0; T < count; T++) { with that slot's name as T, generates the
\* children next at one emit level deeper, and closes the body with } at the
\* emit level of the for line.
C8_RepeatIsCountedLoop ==
    [][ /\ ( Generating("Repeat") /\ Allocated # 0..(MAX_TEMPORARY_COUNT - 1) )
           => LET slot == CHOOSE i \in 0..(MAX_TEMPORARY_COUNT - 1) :
                            /\ ~skel.temporaries[i]
                            /\ \A j \in 0..(i - 1) : skel.temporaries[j]
                  T    == "_temp_" \o ToString(slot)
                  node == Head(gstack).node
              IN  /\ skel'.err = ""
                  /\ skel'.temporaries = [skel.temporaries EXCEPT ![slot] = TRUE]
                  /\ (RepeatsGenerated = {} => slot = 0)
                  /\ skel'.codeLines =
                        Append(skel.codeLines,
                               Indentation \o "for(int " \o T \o " = 0; " \o T
                               \o " < "
                               \o Join(Map(SelectSeq(node.value.condition, NotSpaces), Raw), " ")
                               \o "; " \o T \o "++) {")
                  /\ skel'.emitLevel = skel.emitLevel + indentCount
                  /\ Len(gstack') = Len(gstack) + Len(node.children)
                  /\ \A k \in 1..Len(node.children) :
                        /\ gstack'[k].op = "node"
                        /\ gstack'[k].node = node.children[k]
                        /\ gstack'[k].level = Head(gstack).level + 1
                  /\ gstack'[Len(node.children) + 1].op = "end"
                  /\ gstack'[Len(node.children) + 1].node = node
        /\ EndOf("Repeat")
           => /\ skel'.emitLevel = skel.emitLevel - indentCount
              /\ skel'.codeLines =
                    Append(skel.codeLines, Repeated(" ", skel.emitLevel - indentCount) \o "}")
              /\ skel'.temporaries = skel.temporaries ]_vars

\* generation is done on a REPEAT nested in a REPEAT and a REPEAT after them
C8_Witness ==
    /\ gpc = "done"
    /\ Allocated = {0, 1, 2}
    /\ Len(skel.codeLines) = 8
    /\ skel.codeLines[1] = "for(int _temp_0 = 0; _temp_0 < 3; _temp_0++) {"
    /\ skel.codeLines[2] = "    for(int _temp_1 = 0; _temp_1 < 3; _temp_1++) {"
    /\ skel.codeLines[4] = "    }"
    /\ skel.codeLines[5] = "}"
    /\ skel.codeLines[6] = "for(int _temp_2 = 0; _temp_2 < 3; _temp_2++) {"
    /\ skel.codeLines[8] = "}"

\* C9: the number of allocated slots is always the number of Repeat nodes
\* generated so far (no slot is released); a Repeat fails exactly when
\* MAX_TEMPORARY_COUNT Repeats were generated before it, with 'No more
\* temporaries available', and generation fails for that reason only there.
C9_PoolNeverReleased ==
    /\ Cardinality(Allocated)
          = Cardinality({i \in RepeatsGenerated : generated[i].ok})
    /\ \A i \in RepeatsGenerated :
          /\ generated[i].ok
                <=> Cardinality({j \in RepeatsGenerated : j < i}) < MAX_TEMPORARY_COUNT
          /\ ~generated[i].ok
                => /\ i = Len(generated)
                   /\ gpc = "error"
                   /\ skel.err = "No more temporaries available"
    /\ skel.err = "No more temporaries available"
          => /\ generated # <<>>
             /\ generated[Len(generated)].type = "Repeat"
             /\ Cardinality(RepeatsGenerated) = MAX_TEMPORARY_COUNT + 1

\* the 11th REPEAT failed after sibling bodies had been closed
C9_Witness ==
    /\ gpc = "error"
    /\ skel.err = "No more temporaries available"
    /\ Cardinality(RepeatsGenerated) = MAX_TEMPORARY_COUNT + 1
    /\ generated[Len(generated)].level = 0
    /\ \E i \in 1..Len(skel.codeLines) : skel.codeLines[i] = "}"

\* ten REPEATs, nested and siblings, were generated to the end
C9_TenWitness ==
    /\ gpc = "done"
    /\ Cardinality(RepeatsGenerated) = MAX_TEMPORARY_COUNT
    /\ Allocated = 0..(MAX_TEMPORARY_COUNT - 1)

-----------------------------------------------------------------------------
(* Properties of the parser *)

Measured == parser.measured

\* C1: every leading-whitespace run measured whose length is not an exact
\* multiple of the unit the first run established is rejected, and the parse
\* has then failed with the 'Improper indentation' error.
C1_AsClaimed ==
    \A i \in 1..Len(Measured) :
        Measured[i].count % Measured[1].count # 0
        => /\ ~Measured[i].accepted
           /\ ppc = "error"
           /\ parser.err \in {ImproperIndentation(Measured[k].delta) : k \in 1..Len(Measured)}

\* C2: once a first leading-whitespace run has been measured, indent.delta is
\* the length of that run in every later state of the parse.
C2_AsClaimed ==
    Measured # <<>> => parser.indent.delta = Measured[1].count

-----------------------------------------------------------------------------
(* Properties of the tokenizer *)

\* the raw text of the tokens produced so far, concatenated in order
RawText == Join(Map(lex.tokens, Raw), "")

\* C11: when tokenize returns without error, the raw texts of the returned
\* tokens, concatenated in order, are exactly the source text
C11_RawsGiveTheSourceBack == tpc = "done" => RawText = Join(lex.string, "")

\* tokenize has returned several tokens, a comment that ends with its line
\* feed among them
C11_Witness ==
    /\ tpc = "done"
    /\ Len(lex.tokens) >= 2
    /\ \E k \in 1..Len(lex.tokens) :
          /\ lex.tokens[k].type = "Comment"
          /\ Len(lex.tokens[k].raw) = 3

-----------------------------------------------------------------------------
(* Properties of the pipeline *)

\* C12: the pipeline on a METHOD with a list of (type, name) parameters and
\* a RETURN body succeeds: neither makeTree nor skeletonize throws, and once
\* skeletonize has returned the header stream holds the forward declaration
\* and the body stream a return statement
C12_AsClaimed ==
    parser.tokens = MethodWithReturn =>
        /\ ppc # "error"
        /\ gpc # "error"
        /\ gpc = "done" =>
              /\ \E k \in 1..Len(skel.headerLines) :
                    skel.headerLines[k] = "void f(int a, int b);"
              /\ \E k \in 1..Len(skel.codeLines) :
                    skel.codeLines[k] = "    return a + b;"

\* C14: on a STRUCTURE followed by two lines at the deeper level the pipeline
\* fails with 'Complex structures currently unimplemented': skeletonize
\* never returns an output, and an error thrown is that one
C14_AsClaimed ==
    parser.tokens = StructureWithTwoLines =>
        /\ gpc # "done"
        /\ gpc = "error" => skel.err = "Complex structures currently unimplemented"
        /\ ppc = "error" => parser.err = "Complex structures currently unimplemented"


-----------------------------------------------------------------------------
(* Properties of head expressions *)

\* C13: in the list parse returns, a word followed by ( that names a
\* STRUCTURE parsed earlier is a Declaration, never a MethodCall
C13_AsClaimed ==
    ppc = "done" =>
        \A k \in 1..Len(parser.nodes) :
            parser.nodes[k].type = "MethodCall" =>
                ~\E j \in 1..(k - 1) :
                    /\ parser.nodes[j].type = "Structure"
                    /\ parser.nodes[j].value.name = parser.nodes[k].value.method.raw

-----------------------------------------------------------------------------
(* Properties of the trees parse returns *)

RECURSIVE TypesIn(_)
\* the node types that occur in a list of nodes, at any depth
TypesIn(nodes) ==
    UNION { {nodes[k].type} \cup TypesIn(nodes[k].children) : k \in 1..Len(nodes) }

\* C15: in the list parse returns, no MethodDeclaration is the child of
\* another node, at any depth
C15_AsClaimed ==
    ppc = "done" =>
        \A k \in 1..Len(parser.nodes) :
            "MethodDeclaration" \notin TypesIn(parser.nodes[k].children)

\* the text starts with the tokens of the line
StartsWithLine(line) ==
    /\ Len(parser.tokens) >= Len(line)
    /\ SubSeq(parser.tokens, 1, Len(line)) = line

\* C19: a text that starts with MUTABLE and a type declaration gives a
\* Declaration with the mutable flag true, one that starts with the type
\* declaration alone gives the flag false, and on a text that starts with
\* MUTABLE and anything else (an assignment, a method call, no head
\* expression) parsing fails with 'Declaration must follow MUTABLE'
C19_AsClaimed ==
    /\ (ppc = "done" /\ StartsWithLine(Mutable(CallLine_("Int")))) =>
            /\ parser.nodes[1].type = "Declaration"
            /\ parser.nodes[1].value.mutable
    /\ (ppc = "done" /\ StartsWithLine(CallLine_("Int"))) =>
            /\ parser.nodes[1].type = "Declaration"
            /\ ~parser.nodes[1].value.mutable
    /\ ( /\ ppc # "run"
         /\ StartsWithLine(Mutable(<<>>))
         /\ ~StartsWithLine(Mutable(CallLine_("Int"))) ) =>
            /\ ppc = "error"
            /\ parser.err = "Declaration must follow MUTABLE"

\* C20: on a text whose first line deviates from the token sequence of
\* SETMODE, DEFAULT or DEFINE, parsing fails with 'Malformed <construct>
\* command' and no node is produced
C20_AsClaimed ==
    \A line \in DeviatingCommands :
        ( /\ ppc # "run"
          /\ parser.tokens = line \/ StartsWithLine(line \o <<LineBreak>>) )
        => /\ ppc = "error"
           /\ parser.err = "Malformed " \o line[1].raw \o " command"
           /\ parser.nodes = <<>>

-----------------------------------------------------------------------------
(* Properties of parseStep *)

\* a parseStep is about to run
Stepping == ppc = "run" /\ pstack # <<>> /\ Head(pstack).op = "step"

RECURSIVE AfterLineBreaks(_)
\* the position of the first token at or after position at that is not a line break
AfterLineBreaks(at) ==
    IF at < Len(parser.tokens) /\ parser.tokens[at + 1].type = "LineBreak"
    THEN AfterLineBreaks(at + 1)
    ELSE at

\* the line the step is about to measure: its start, the level
\* parseInitialWhitespace gives it, and whether a token follows its whitespace
LineStart == AfterLineBreaks(parser.tokenIndex)

LineLevel == parseInitialWhitespace([parser EXCEPT !.tokenIndex = LineStart]).indent.level

LineMeasured ==
    LET measured == parseInitialWhitespace([parser EXCEPT !.tokenIndex = LineStart])
    IN  /\ LineStart < Len(parser.tokens)
        /\ measured.err = ""
        /\ measured.tokenIndex < Len(parser.tokens)

NotIncreasing == "parseStep() should be strictly increasing token index"

\* C22: when a parseStep has returned to the loop of parse, the cursor is
\* greater than at the entry of the step if it returned 'not done' and at
\* least the entry value if it returned 'done': the assertion of parse never
\* fails, and no step leaves the cursor behind a token an earlier step consumed
C22_StepsAdvanceTheCursor ==
    /\ parser.err # NotIncreasing
    /\ (ppc = "run" /\ pstack # <<>> /\ Head(pstack).op = "check") =>
          IF ret THEN Head(pstack).beforeIndex <= parser.tokenIndex
                 ELSE Head(pstack).beforeIndex < parser.tokenIndex

\* a parseStep has returned done on a line too shallow, after line breaks
\* that it skipped: the cursor is past its entry value
C22_Witness ==
    /\ ppc = "run"
    /\ ret
    /\ pstack # <<>>
    /\ Head(pstack).op = "check"
    /\ Head(pstack).beforeIndex < parser.tokenIndex
    /\ parser.tokenIndex < Len(parser.tokens)
    /\ parser.nodes # <<>>

\* C23: parse terminates on every token list: makeTree returns the node list
\* or throws, through the nested calls of block descent and the loops of
\* parseRepeat, parseParameterized and parseAssignmentExpression
C23_ParseTerminates == <>(ppc \in {"done", "error"})

\* parse has returned after the loop over the count of a REPEAT and the
\* descent into its body
C23_Witness ==
    /\ ppc = "done"
    /\ \E k \in 1..Len(parser.nodes) :
          /\ parser.nodes[k].type = "Repeat"
          /\ parser.nodes[k].children # <<>>



(***************************************************************************)
(* Properties of block descent                                             *)
(***************************************************************************)

\* the descents in progress: the frame of a nested parse(baseLevel + 1) above
\* the rest of its descendParse
OpenDescents ==
    {k \in 1..(Len(pstack) - 1) : pstack[k].op = "parse" /\ pstack[k + 1].op = "endDescend"}

\* the level of the line a step is about to read: the level parseStructure
\* has measured when it has consumed the run of the line, else the level the
\* step will measure
LevelOfLine ==
    IF /\ parser.tokenIndex > 0
       /\ parser.tokens[parser.tokenIndex].type = "Spaces"
       /\ Len(pstack) >= 2
       /\ pstack[2].op = "endStructure"
    THEN parser.indent.level
    ELSE LineLevel

\* C24: a METHOD or REPEAT on a line at level L calls parse(L + 1); while the
\* call runs the nodes that were in the list before it stay as they are and
\* no line of level at most L is consumed, so that the children are the nodes
\* of the lines before the first such line and that line gives a later node
\* outside the body
C24_AsClaimed ==
    [][ /\ (Stepping /\ ppc' = "run" /\ Len(pstack') = Len(pstack) + 1
                /\ pstack'[2].op = "endDescend")
            => pstack'[1].minLevel = LevelOfLine + 1
        /\ \A k \in 1..Len(pstack) :
              pstack[k].op = "endDescend"
                 => /\ Len(parser'.nodes) >= pstack[k].nodeLength
                    /\ SubSeq(parser'.nodes, 1, pstack[k].nodeLength)
                          = SubSeq(parser.nodes, 1, pstack[k].nodeLength)
        /\ (Stepping /\ LineMeasured /\ ppc' = "run" /\ ~ret')
            => \A k \in OpenDescents : LevelOfLine >= pstack[k].minLevel
      ]_<<pstack, ppc>>


(***************************************************************************)
(* Properties of the emit level                                            *)
(***************************************************************************)

\* the nesting level of what the generator is about to do: the level of the
\* node about to be generated, and the level of the children of the body
\* about to be closed
NestingLevel ==
    IF gstack = <<>> THEN 0
    ELSE IF Head(gstack).op = "end" THEN Head(gstack).level + 1
    ELSE Head(gstack).level

\* C25: while the tree is generated the emit level is indentCount times the
\* nesting level of the node being generated, 'No open group to end' never
\* fails, and the emit level is 0 when the generation has completed
C25_EmitLevelFollowsNesting ==
    /\ skel.err # "No open group to end"
    /\ gpc = "run" => skel.emitLevel = indentCount * NestingLevel
    /\ gpc = "done" => skel.emitLevel = 0

\* the generation has completed on a tree in which a body at level 1 with a
\* child at level 2 was closed and a node at level 1 was generated after it
C25_Witness ==
    /\ gpc = "done"
    /\ \E i, j \in 1..Len(generated) :
          /\ i + 1 < j
          /\ generated[i].level = 1 /\ generated[i].type \in BodyKinds \cup {"Option"}
          /\ generated[i + 1].level = 2
          /\ generated[j].level = 1 /\ generated[j].type = "Pass"


(***************************************************************************)
(* Properties of hasSequenceAhead                                          *)
(***************************************************************************)

\* the sequence the branch of a keyword asks hasSequenceAhead for first
SequencesOf(raw) ==
    CASE raw = "STRUCTURE"             -> {<<"Keyword", "Word", "Colon">>}
      [] raw \in {"DEFINE", "DEFAULT"} -> {<<"Keyword", "Word", "SetEquals">>}
      [] raw \in {"SETMODE", "METHOD"} -> {<<"Keyword", "Word", "OpenParen">>}
      [] raw = "MUTABLE"               -> {<<"Keyword">>}
      [] OTHER                         -> {}

\* the parser at the keyword a step is about to dispatch on
AtKeyword == parseInitialWhitespace([parser EXCEPT !.tokenIndex = LineStart])

Dispatching ==
    /\ Stepping
    /\ LineMeasured
    /\ AtKeyword.indent.level >= Head(pstack).minLevel
    /\ hasAhead(AtKeyword, "Keyword")

\* C26: hasSequenceAhead reads no token at or beyond the end of the tokens,
\* also when the sequence it matches ends the tokens, with or without spaces
\* after it
C26_AsClaimed ==
    Dispatching =>
        \A toMatch \in SequencesOf(getTokenOffset(AtKeyword, 0).raw) :
            hasSequenceAhead(AtKeyword, toMatch).err # TypeError


(***************************************************************************)
(* Properties of parseStructure                                            *)
(***************************************************************************)

\* the parseStep() call of parseStructure is about to run
ReadingChild ==
    /\ Stepping
    /\ Len(pstack) >= 2
    /\ pstack[2].op = "endStructure"

\* C27: the child of a Structure node is the node parsed from the line after
\* the header: the parseStep() call of parseStructure, when it returns, has
\* added that node to the list, so that nodes.pop() takes it and neither
\* takes nor removes a node added before the header was read
C27_AsClaimed ==
    [][ (ReadingChild /\ ppc' = "run" /\ Len(pstack') = Len(pstack) - 1)
           => Len(parser'.nodes) = Len(parser.nodes) + 1 ]_<<pstack, ppc>>


(***************************************************************************)
(* Properties of the mode macros in the header                             *)
(***************************************************************************)

\* the option lists the SetMode nodes generated so far have registered for the mode
OptionLists(name) == {Map(generated[i].value.modes, Raw) : i \in SetModesOf(name)}

\* the macros of the options registered for the mode
ModeMacros(name) ==
    UNION {{MacroName(name, options[k]) : k \in 1..Len(options)} :
             options \in OptionLists(name)}

\* the macros that the !defined tests of an #if line of the mode ask about
TestedBy(name, line) ==
    UNION {{MacroName(name, options[k]) : k \in 1..Len(options)} :
             options \in {o \in OptionLists(name) :
                              line = "#if " \o Join(NotDefined(name, o), " && ")}}

IsIf(name, line) ==
    \E options \in OptionLists(name) : line = "#if " \o Join(NotDefined(name, options), " && ")

RECURSIVE Preprocessed(_, _, _, _, _)
\* the macros of the mode a C preprocessor has defined after lines[i..],
\* from the macros defined before and whether the lines are inside an #if
\* group that is taken
Preprocessed(name, lines, i, defined, taken) ==
    IF i > Len(lines) THEN defined
    ELSE LET line == lines[i]
         IN  IF IsIf(name, line)
             THEN Preprocessed(name, lines, i + 1, defined,
                               TestedBy(name, line) \cap defined = {})
             ELSE IF line = "#endif"
             THEN Preprocessed(name, lines, i + 1, defined, TRUE)
             ELSE IF ~taken
             THEN Preprocessed(name, lines, i + 1, defined, taken)
             ELSE IF \E macro \in ModeMacros(name) : line \in {"#define " \o macro, "  #define " \o macro}
             THEN Preprocessed(name, lines, i + 1,
                               defined \cup {macro \in ModeMacros(name) :
                                                line \in {"#define " \o macro, "  #define " \o macro}},
                               taken)
             ELSE IF \E macro \in ModeMacros(name) : line = "#undef " \o macro
             THEN Preprocessed(name, lines, i + 1,
                               defined \ {macro \in ModeMacros(name) : line = "#undef " \o macro},
                               taken)
             ELSE Preprocessed(name, lines, i + 1, defined, taken)

\* the macros of the mode that the header leaves defined
DefinedMacros(name) == Preprocessed(name, skel.headerLines, 1, {}, TRUE)

\* C28: the header that a sequence of SetMode, DefaultDefine and Define nodes
\* on a mode has produced, read as preprocessor directives, leaves at most
\* one macro of the mode defined
C28_AsClaimed ==
    gpc = "done" => \A name \in RegisteredModes : Cardinality(DefinedMacros(name)) <= 1


(***************************************************************************)
(* Properties of method declarations                                       *)
(***************************************************************************)

\* the C types a return type can be written as
ReturnTypes == {CTypeMap[key] : key \in DOMAIN CTypeMap}

\* C29: for every MethodDeclaration generated, the forward declaration in the
\* header lines and the definition in the code lines have the same return
\* type, the same name and the same parameter signature
C29_AsClaimed ==
    \A i \in 1..Len(generated) :
        (generated[i].type = "MethodDeclaration" /\ generated[i].ok /\ skel.err = "")
        => LET name      == generated[i].value.name
               signature == paramSignature(skel, parseParameters(generated[i].value.parameters, 1))
           IN  \E returnType \in ReturnTypes :
                  /\ \E h \in 1..Len(skel.headerLines) :
                        skel.headerLines[h]
                          = returnType \o " " \o name \o "(" \o signature \o ");"
                  /\ \E c \in 1..Len(skel.codeLines) :
                        skel.codeLines[c]
                          = Repeated(" ", indentCount * generated[i].level)
                            \o returnType \o " " \o name \o " (" \o signature \o ") {"

====
